---- MODULE Spec2Model ----
(***************************************************************************)
(* Model of the stellar-explorer ingestion pipeline (IngestionService),    *)
(* the Horizon connector (HorizonClient) and the rule engine's             *)
(* deduplication / materialisation step (RuleEngine).                      *)
(*                                                                         *)
(* The relational store is a record of tables; a table is a sequence of    *)
(* rows and a row's id is its position.  `db' is the committed store.  A   *)
(* handler works on the view of its SQLAlchemy session (the committed rows *)
(* plus its own flushed, uncommitted writes) and ends with commit, which   *)
(* makes the session's view the committed store, or with rollback, which   *)
(* discards it.  `ret' is the outcome of the last handler that ran.        *)
(***************************************************************************)
EXTENDS Integers, Sequences, FiniteSets, TLC

VARIABLES db, ret, now, client, sessions, limiter

vars == <<db, ret, now, client, sessions, limiter>>

----------------------------------------------------------------------------
(* Bounds of the model                                                     *)

MaxPage == 2
MaxEdgeCount == 2
MaxTime == 3
TickHours == 12
MaxRecords == 2
MaxResults == 2
MaxBalances == 2
MaxRiskRows == 1
MaxRiskResults == 1
MaxCalls == 3
MaxConcPage == 1
MaxConcEdges == 3
MaxFetches == 6
MaxTransferOps == 1
MaxDormantOps == 1
MaxOutflowOps == 11
MaxHolders == 15
MaxSeenRows == 2
MaxAccountOps == 1
MaxOverlapPage == 2
MaxOverlapEdges == 3
MaxOutflowRuns == 2
MaxOutflowAlerts == 3
MaxRaceRecords == 3
MaxWatchBalances == 5
MaxClock == 150

----------------------------------------------------------------------------
(* Values                                                                  *)

\* SQL NULL / Python None in an id, ledger or token position
NULL == -1

\* the literal cursor "now" the checkpoint rows are initialised with
NowToken == 0

Streams == {"transactions_global", "operations_global"}

PaymentTypes == {"payment", "path_payment_strict_send", "path_payment_strict_receive"}

\* Raw transaction records the source can return, in paging-token order
TxLedger ==
  << [hash |-> "h1", paging_token |-> 1, ledger |-> 11, source_account |-> "GA"],
     [hash |-> "h2", paging_token |-> 2, ledger |-> 12, source_account |-> "GB"] >>

\* Raw operation records the source can return, in paging-token order
OpLedger ==
  << [id |-> "o1", paging_token |-> 1, ledger |-> NULL, transaction_hash |-> "h1",
      type |-> "payment", from |-> "GA", to |-> "GB",
      asset_type |-> "native", asset_code |-> "", asset_issuer |-> "", amount |-> 10000],
     [id |-> "o2", paging_token |-> 2, ledger |-> NULL, transaction_hash |-> "h1",
      type |-> "payment", from |-> "GA", to |-> "GB",
      asset_type |-> "native", asset_code |-> "", asset_issuer |-> "", amount |-> 4000],
     [id |-> "o3", paging_token |-> 3, ledger |-> NULL, transaction_hash |-> "h2",
      type |-> "payment", from |-> "GA", to |-> "GB",
      asset_type |-> "credit_alphanum4", asset_code |-> "USD", asset_issuer |-> "GI", amount |-> 10000],
     [id |-> "o4", paging_token |-> 4, ledger |-> NULL, transaction_hash |-> "h2",
      type |-> "path_payment_strict_send", from |-> "GA", to |-> "GB",
      asset_type |-> "credit_alphanum4", asset_code |-> "USD", asset_issuer |-> "GI", amount |-> 4000] >>

\* Raw operation records of other types: a clawback, which carries an
\* account, an asset and an amount of its own, an offer, the funding of an
\* account (funder and account in the from and to fields, starting_balance
\* in amount), and a payment
OtherOpLedger ==
  << [id |-> "x1", paging_token |-> 1, ledger |-> NULL, transaction_hash |-> "h1",
      type |-> "clawback", from |-> "GC", to |-> "",
      asset_type |-> "credit_alphanum4", asset_code |-> "EUR", asset_issuer |-> "GI", amount |-> 7],
     [id |-> "x2", paging_token |-> 2, ledger |-> NULL, transaction_hash |-> "h1",
      type |-> "manage_sell_offer", from |-> "", to |-> "",
      asset_type |-> "", asset_code |-> "", asset_issuer |-> "", amount |-> 3],
     [id |-> "x3", paging_token |-> 3, ledger |-> NULL, transaction_hash |-> "h2",
      type |-> "create_account", from |-> "GB", to |-> "GC",
      asset_type |-> "", asset_code |-> "", asset_issuer |-> "", amount |-> 20],
     [id |-> "x4", paging_token |-> 4, ledger |-> NULL, transaction_hash |-> "h2",
      type |-> "payment", from |-> "GB", to |-> "GC",
      asset_type |-> "credit_alphanum4", asset_code |-> "USD", asset_issuer |-> "GI", amount |-> 10000] >>

\* the transaction detail the source returns for a hash
TxDetail(h) == CHOOSE t \in {TxLedger[i] : i \in DOMAIN TxLedger} : t.hash = h

\* The pages a fetch can return: at most n consecutive records of the
\* ledger in ascending token order, starting anywhere (a replayed stream
\* starts at or before the cursor, a cursor of "now" starts at the head)
Pages(ledger, n) ==
  { SubSeq(ledger, w[1] + 1, w[1] + w[2]) :
      w \in { v \in (0..Len(ledger)) \X (0..n) : v[1] + v[2] <= Len(ledger) } }
  \cup
  \* a page that carries one record twice
  { << ledger[i], ledger[i] >> : i \in { j \in DOMAIN ledger : n >= 2 } }

----------------------------------------------------------------------------
(* Table helpers                                                           *)

Rows(t) == {t[i] : i \in DOMAIN t}

\* Query(...).filter(...).first() over the ids of the matching rows: the
\* first of them, or NULL
FirstId(ids) ==
  IF ids = {} THEN NULL ELSE CHOOSE i \in ids : \A j \in ids : i <= j

EmptyStore ==
  [accounts |-> <<>>, assets |-> <<>>, txs |-> <<>>, ops |-> <<>>, edges |-> <<>>,
   balances |-> <<>>, watchlists |-> <<>>, members |-> <<>>,
   flags |-> <<>>, alerts |-> <<>>,
   ckpt |-> [s \in Streams |->
              [last_paging_token |-> NowToken, last_ledger |-> NULL,
               error_count |-> 0, last_error |-> NULL]],
   replayed |-> FALSE]

----------------------------------------------------------------------------
(* Entity upsert layer                                                     *)

AccountIdOf(s, address) ==
  FirstId({ i \in DOMAIN s.accounts : s.accounts[i].address = address })

\* _get_or_create_account: the store after the call.  An existing row is
\* returned as it is; a new row has first_seen = last_seen =
\* datetime.utcnow()
GetOrCreateAccount(s, address) ==
  IF AccountIdOf(s, address) # NULL THEN s
  ELSE [s EXCEPT !.accounts =
          Append(@, [address |-> address, risk_score |-> 0, last_seen |-> now])]

AssetIdOf(s, code, issuer) ==
  FirstId({ i \in DOMAIN s.assets :
              s.assets[i].asset_code = code /\ s.assets[i].asset_issuer = issuer })

\* _get_or_create_asset: the store after the call
GetOrCreateAsset(s, code, issuer, type) ==
  IF AssetIdOf(s, code, issuer) # NULL THEN s
  ELSE [s EXCEPT !.assets =
          Append(@, [asset_code |-> code, asset_issuer |-> issuer, asset_type |-> type])]

TxIdOf(s, h) == FirstId({ i \in DOMAIN s.txs : s.txs[i].tx_hash = h })

\* insert(Transaction).on_conflict_do_nothing(): unique index on tx_hash
InsertTransaction(s, row) ==
  IF \E r \in Rows(s.txs) : r.tx_hash = row.tx_hash THEN s
  ELSE [s EXCEPT !.txs = Append(@, row)]

InsertOperationAlways(s, row) == [s EXCEPT !.ops = Append(@, row)]

\* insert(Operation).on_conflict_do_nothing(): unique index on op_id; the
\* store remembers in `replayed' that an already stored operation came again
InsertOperation(s, row) ==
  IF \E r \in Rows(s.ops) : r.op_id = row.op_id
    THEN [s EXCEPT !.replayed = TRUE]
    ELSE [s EXCEPT !.ops = Append(@, row)]

\* uq_counterparty_edge (from_account_id, to_account_id, asset_id): the
\* unique index treats NULL asset_id values as distinct, so a row with a
\* NULL asset never conflicts
EdgeConflict(e, f, t, a) ==
  e.from_account_id = f /\ e.to_account_id = t /\ a # NULL /\ e.asset_id = a

\* _upsert_counterparty_edge: insert ... on_conflict_do_update, with
\* last_seen = datetime.utcnow() in the inserted and in the updated row
UpsertCounterpartyEdge(s, f, t, a, amount) ==
  IF \E i \in DOMAIN s.edges : EdgeConflict(s.edges[i], f, t, a)
    THEN [s EXCEPT !.edges =
            [i \in DOMAIN @ |->
               IF EdgeConflict(@[i], f, t, a)
                 THEN [@[i] EXCEPT !.tx_count = @ + 1, !.total_amount = @ + amount,
                                   !.last_seen = now]
                 ELSE @[i]]]
    ELSE [s EXCEPT !.edges =
            Append(@, [from_account_id |-> f, to_account_id |-> t, asset_id |-> a,
                       tx_count |-> 1, total_amount |-> amount, last_seen |-> now])]

\* _upsert_transaction_record / the insert half of _ensure_transaction
UpsertTransactionRecord(s, tx) ==
  LET s1 == GetOrCreateAccount(s, tx.source_account)
  IN  InsertTransaction(s1, [tx_hash |-> tx.hash, ledger |-> tx.ledger,
                             source_account_id |-> AccountIdOf(s1, tx.source_account)])

\* an upsert that resolves the accounts and the asset a record carries,
\* whatever its type
UpsertOperationAnyType(s, txid, op) ==
  LET s1 == IF op.from # "" THEN GetOrCreateAccount(s, op.from) ELSE s
      s2 == IF op.to # "" THEN GetOrCreateAccount(s1, op.to) ELSE s1
      s3 == IF op.asset_code # ""
              THEN GetOrCreateAsset(s2, op.asset_code, op.asset_issuer, op.asset_type)
              ELSE s2
  IN  InsertOperation(s3, [op_id |-> op.id, tx_id |-> txid, type |-> op.type,
                           from_account_id |-> AccountIdOf(s3, op.from),
                           to_account_id |-> AccountIdOf(s3, op.to),
                           asset_id |-> AssetIdOf(s3, op.asset_code, op.asset_issuer),
                           amount |-> op.amount])

\* an upsert that accumulates an edge for every record with two parties
UpsertOperationEdgeForFunding(s, txid, op) ==
  LET s1 == IF op.from # "" /\ op.type \in PaymentTypes \cup {"create_account"}
              THEN GetOrCreateAccount(s, op.from) ELSE s
      s2 == IF op.to # "" /\ op.type \in PaymentTypes \cup {"create_account"}
              THEN GetOrCreateAccount(s1, op.to) ELSE s1
      f  == IF s2 = s THEN NULL ELSE AccountIdOf(s2, op.from)
      t  == IF s2 = s THEN NULL ELSE AccountIdOf(s2, op.to)
      s3 == IF f # NULL /\ t # NULL
              THEN UpsertCounterpartyEdge(s2, f, t, NULL, op.amount) ELSE s2
  IN  InsertOperation(s3, [op_id |-> op.id, tx_id |-> txid, type |-> op.type,
                           from_account_id |-> f, to_account_id |-> t,
                           asset_id |-> NULL,
                           amount |-> IF f = NULL THEN NULL ELSE op.amount])

\* _upsert_operation for an operation whose transaction row has id txid
UpsertOperation(s, txid, op) ==
  IF op.type \in PaymentTypes THEN
    LET s1 == GetOrCreateAccount(s, op.from)
        s2 == GetOrCreateAccount(s1, op.to)
        s3 == IF op.asset_type # "native"
                THEN GetOrCreateAsset(s2, op.asset_code, op.asset_issuer, op.asset_type)
                ELSE s2
        f  == AccountIdOf(s3, op.from)
        t  == AccountIdOf(s3, op.to)
        a  == IF op.asset_type # "native"
                THEN AssetIdOf(s3, op.asset_code, op.asset_issuer) ELSE NULL
        s4 == IF f # NULL /\ t # NULL
                THEN UpsertCounterpartyEdge(s3, f, t, a, op.amount) ELSE s3
    IN  InsertOperation(s4, [op_id |-> op.id, tx_id |-> txid, type |-> op.type,
                             from_account_id |-> f, to_account_id |-> t,
                             asset_id |-> a, amount |-> op.amount])
  ELSE IF op.type = "create_account" THEN
    \* funder and account of the record, carried in its from and to fields
    LET s1 == GetOrCreateAccount(s, op.from)
        s2 == GetOrCreateAccount(s1, op.to)
    IN  InsertOperation(s2, [op_id |-> op.id, tx_id |-> txid, type |-> op.type,
                             from_account_id |-> AccountIdOf(s2, op.from),
                             to_account_id |-> AccountIdOf(s2, op.to),
                             asset_id |-> NULL, amount |-> op.amount])
  ELSE
    InsertOperation(s, [op_id |-> op.id, tx_id |-> txid, type |-> op.type,
                        from_account_id |-> NULL, to_account_id |-> NULL,
                        asset_id |-> NULL, amount |-> NULL])

\* _update_ingestion_state without last_error
UpdateIngestionState(s, stream, token, ledger) ==
  [s EXCEPT !.ckpt[stream] =
     [last_paging_token |-> token, last_ledger |-> ledger,
      error_count |-> 0, last_error |-> NULL]]

RollbackKeepsCheckpoint(committed, session) ==
  [committed EXCEPT !.ckpt = session.ckpt]

RollbackLeaks(committed, session) == session

\* Session.rollback(): the session's view falls back to the committed store
Rollback(committed, session) == committed

----------------------------------------------------------------------------
(* Ingestion coordinator: one stream cycle                                 *)

\* Session.commit(): the session's view becomes the committed store
Commit(committed, session) == session

\* the locals of a cycle: session view s and the counters of the loop
CycleStart(s) ==
  [s |-> s, transactions_created |-> 0, operations_created |-> 0,
   last_token |-> NULL, last_ledger |-> NULL]

\* a loop body that also stores the operations of a new transaction
TxRecordStepWithOperations(c, tx) ==
  LET s1 == UpsertTransactionRecord(c.s, tx)
      created == Len(s1.txs) = Len(c.s.txs) + 1
      op == CHOOSE r \in Rows(OpLedger) : r.transaction_hash = tx.hash
      s2 == IF created THEN UpsertOperation(s1, TxIdOf(s1, tx.hash), op) ELSE s1
  IN  [c EXCEPT !.s = s2,
                !.last_token = tx.paging_token,
                !.last_ledger = tx.ledger,
                !.transactions_created = IF created THEN @ + 1 ELSE @,
                !.operations_created = @ + (Len(s2.ops) - Len(s1.ops))]

\* one iteration of the loop of ingest_latest_transactions
TxRecordStep(c, tx) ==
  LET s1 == UpsertTransactionRecord(c.s, tx)
      created == Len(s1.txs) = Len(c.s.txs) + 1
  IN  [c EXCEPT !.s = s1,
                !.last_token = tx.paging_token,
                !.last_ledger = tx.ledger,
                !.transactions_created = IF created THEN @ + 1 ELSE @]

\* _ensure_transaction: the store after the call; detail_ok tells whether
\* fetch_transaction_detail returned (an exception is logged and swallowed)
EnsureTransaction(s, tx_hash, detail_ok) ==
  IF TxIdOf(s, tx_hash) # NULL \/ ~detail_ok THEN s
  ELSE UpsertTransactionRecord(s, TxDetail(tx_hash))

\* a loop body that writes the operation without its transaction
OpRecordStepOrphan(c, op, detail_ok) ==
  LET s1 == EnsureTransaction(c.s, op.transaction_hash, detail_ok)
      txid == TxIdOf(s1, op.transaction_hash)
  IN  [c EXCEPT !.s = UpsertOperation(s1, txid, op),
                !.last_token = op.paging_token]

\* one iteration of the loop of ingest_operations_stream
OpRecordStep(c, op, detail_ok) ==
  LET s1 == EnsureTransaction(c.s, op.transaction_hash, detail_ok)
      tx_created == Len(s1.txs) = Len(c.s.txs) + 1
      txid == TxIdOf(s1, op.transaction_hash)
      s2 == IF txid = NULL THEN s1 ELSE UpsertOperation(s1, txid, op)
      created == Len(s2.ops) = Len(s1.ops) + 1
  IN  [c EXCEPT !.s = s2,
                !.last_token = op.paging_token,
                !.last_ledger = IF op.ledger # NULL THEN op.ledger ELSE @,
                !.transactions_created = IF tx_created THEN @ + 1 ELSE @,
                !.operations_created = IF created THEN @ + 1 ELSE @]

\* the first k iterations of the loop over the fetched page
RECURSIVE TxLoop(_, _, _)
TxLoop(c, page, k) ==
  IF k = 0 THEN c ELSE TxRecordStep(TxLoop(c, page, k - 1), page[k])

RECURSIVE OpsLoop(_, _, _, _)
OpsLoop(c, page, detail_ok, k) ==
  IF k = 0 THEN c
  ELSE OpRecordStep(OpsLoop(c, page, detail_ok, k - 1), page[k], detail_ok[k])

WriteCheckpointAlways(c, stream) ==
  UpdateIngestionState(c.s, stream,
                       IF c.last_token # NULL THEN c.last_token ELSE NowToken,
                       c.last_ledger)

\* "if last_token: self._update_ingestion_state(...)"
WriteCheckpoint(c, stream) ==
  IF c.last_token # NULL
    THEN UpdateIngestionState(c.s, stream, c.last_token, c.last_ledger)
    ELSE c.s

RECURSIVE SumCount(_)
SumCount(t) == IF t = <<>> THEN 0 ELSE Head(t).tx_count + SumCount(Tail(t))

\* The end of a cycle.  fail_at = 0: no step raises, the session commits and
\* the counters are returned.  fail_at = j: the j-th step raises (record j of
\* the page, or the commit when j = Len(page) + 1) after the earlier steps
\* wrote into the session; the except branch rolls back and re-raises.
FinishCycle(stream, page, fail_at, done, all) ==
  IF fail_at = 0
    THEN /\ db' = Commit(db, WriteCheckpoint(all, stream))
         /\ ret' = [op |-> stream, status |-> "ok",
                    transactions_created |-> all.transactions_created,
                    operations_created |-> all.operations_created,
                    cursor |-> db.ckpt[stream].last_paging_token,
                    page |-> page, dirty |-> FALSE]
    ELSE LET session == IF fail_at = Len(page) + 1
                          THEN WriteCheckpoint(all, stream) ELSE done.s
         IN  /\ db' = Rollback(db, session)
             /\ ret' = [op |-> stream, status |-> "error",
                        transactions_created |-> 0, operations_created |-> 0,
                        cursor |-> db.ckpt[stream].last_paging_token,
                        page |-> <<>>, dirty |-> session # db]

\* ingest_latest_transactions
IngestLatestTransactions ==
  /\ \E page \in Pages(TxLedger, MaxPage) :
     \E fail_at \in 0..(Len(page) + 1) :
       FinishCycle("transactions_global", page, fail_at,
                   TxLoop(CycleStart(db), page, IF fail_at = 0 THEN 0 ELSE fail_at - 1),
                   TxLoop(CycleStart(db), page, Len(page)))
  /\ UNCHANGED <<now, client, sessions, limiter>>

\* ingest_operations_stream over the records of a ledger
IngestOperationsFrom(ledger) ==
  /\ SumCount(db.edges) < MaxEdgeCount
  /\ \E page \in Pages(ledger, MaxPage) :
     \E detail_ok \in [1..Len(page) -> BOOLEAN] :
     \E fail_at \in 0..(Len(page) + 1) :
       FinishCycle("operations_global", page, fail_at,
                   OpsLoop(CycleStart(db), page, detail_ok, IF fail_at = 0 THEN 0 ELSE fail_at - 1),
                   OpsLoop(CycleStart(db), page, detail_ok, Len(page)))
  /\ UNCHANGED <<now, client, sessions, limiter>>

\* ingest_operations_stream
IngestOperationsStream == IngestOperationsFrom(OpLedger)

\* ingest_operations_stream over records of every type
IngestOtherOperations == IngestOperationsFrom(OtherOpLedger)

----------------------------------------------------------------------------
(* Account ingest and watchlists                                           *)

Addresses == {"GA"}

\* what fetch_account can do: return the account detail, raise
\* AccountNotFoundError, or raise HorizonClientError
FetchOutcomes == {"ok", "not_found", "error"}

NativeEntry ==
  [asset_type |-> "native", asset_code |-> "", asset_issuer |-> "", balance |-> 100]

CreditEntry(code) ==
  [asset_type |-> "credit_alphanum4", asset_code |-> code, asset_issuer |-> "GI",
   balance |-> 10]

\* the balance entries of the account detail the source returns
AccountData(address) == << NativeEntry, CreditEntry("USD") >>

\* the balance entries the source can return for an account over time: a
\* native balance only, one trustline only, both, two trustlines
AccountDetails ==
  { << NativeEntry >>, << CreditEntry("USD") >>, << NativeEntry, CreditEntry("USD") >>,
    << CreditEntry("USD"), CreditEntry("EUR") >> }

UpsertAccountResetsRisk(s, address) ==
  IF AccountIdOf(s, address) # NULL
    THEN [s EXCEPT !.accounts[AccountIdOf(s, address)].risk_score = 0,
                   !.accounts[AccountIdOf(s, address)].last_seen = now]
    ELSE [s EXCEPT !.accounts =
            Append(@, [address |-> address, risk_score |-> 0, last_seen |-> now])]

\* _upsert_account: an existing row keeps its columns but last_seen, set to
\* datetime.utcnow(), and meta_data; a new row starts with risk_score 0.0
\* and first_seen = last_seen = datetime.utcnow()
UpsertAccount(s, address) ==
  IF AccountIdOf(s, address) # NULL
    THEN [s EXCEPT !.accounts[AccountIdOf(s, address)].last_seen = now]
    ELSE [s EXCEPT !.accounts =
            Append(@, [address |-> address, risk_score |-> 0, last_seen |-> now])]

\* an upsert that does not look for the stored row
UpsertAssetAlwaysNew(s, b) ==
  IF b.asset_type = "native" THEN s
  ELSE [s EXCEPT !.assets =
          Append(@, [asset_code |-> b.asset_code, asset_issuer |-> b.asset_issuer,
                     asset_type |-> b.asset_type])]

\* _upsert_asset: the store after the call.  Native has no asset row; an
\* existing (asset_code, asset_issuer) row is returned, is_new False
UpsertAsset(s, b) ==
  IF b.asset_type = "native" THEN s
  ELSE IF AssetIdOf(s, b.asset_code, b.asset_issuer) # NULL THEN s
  ELSE [s EXCEPT !.assets =
          Append(@, [asset_code |-> b.asset_code, asset_issuer |-> b.asset_issuer,
                     asset_type |-> b.asset_type])]

\* a write that keeps one row per account and asset
UpsertAccountBalanceReplaces(s, account_id, asset_id, b) ==
  LET row == [account_id |-> account_id, asset_id |-> asset_id,
              balance |-> b.balance, snapshot_at |-> now]
      ids == { i \in DOMAIN s.balances :
                 s.balances[i].account_id = account_id /\ s.balances[i].asset_id = asset_id }
  IN  IF ids = {} THEN [s EXCEPT !.balances = Append(@, row)]
      ELSE [s EXCEPT !.balances[FirstId(ids)] = row]

\* _upsert_account_balance: a snapshot row is always added, stamped
\* datetime.utcnow()
UpsertAccountBalance(s, account_id, asset_id, b) ==
  [s EXCEPT !.balances =
     Append(@, [account_id |-> account_id, asset_id |-> asset_id,
                balance |-> b.balance, snapshot_at |-> now])]

\* one iteration of the loop of ingest_account over the balance entries
UpsertBalance(c, account_id, b) ==
  LET s1 == UpsertAsset(c.s, b)
      is_new_asset == Len(s1.assets) = Len(c.s.assets) + 1
      a  == IF b.asset_type = "native" THEN NULL
            ELSE AssetIdOf(s1, b.asset_code, b.asset_issuer)
  IN  [s |-> UpsertAccountBalance(s1, account_id, a, b),
       balances_created |-> c.balances_created + 1,
       assets_created |-> IF is_new_asset THEN c.assets_created + 1
                          ELSE c.assets_created]

RECURSIVE BalanceLoop(_, _, _, _)
BalanceLoop(s, account_id, balances, k) ==
  IF k = 0 THEN [s |-> s, balances_created |-> 0, assets_created |-> 0]
  ELSE UpsertBalance(BalanceLoop(s, account_id, balances, k - 1), account_id, balances[k])

\* a call that leaves what it wrote before a failure in the store
IngestAccountDataKeeps(committed, s, address, account_data, outcome, fail_at) ==
  LET s1 == UpsertAccount(s, address)
      c  == BalanceLoop(s1, AccountIdOf(s1, address), account_data,
                        IF fail_at = 0 THEN Len(account_data) ELSE fail_at - 1)
  IN  IF outcome # "ok"
        THEN [committed |-> committed, s |-> s, status |-> outcome, account_id |-> NULL,
              balances_created |-> 0, assets_created |-> 0]
        ELSE [committed |-> c.s, s |-> c.s,
              status |-> IF fail_at = 0 THEN "ok" ELSE "internal",
              account_id |-> IF fail_at = 0 THEN AccountIdOf(s1, address) ELSE NULL,
              balances_created |-> IF fail_at = 0 THEN c.balances_created ELSE 0,
              assets_created |-> IF fail_at = 0 THEN c.assets_created ELSE 0]

\* ingest_account called on a session whose view is s over the committed
\* store, for the detail account_data the source returns.  outcome is what
\* fetch_account does.  fail_at = 0: no later step raises, the whole session
\* is committed and (account, balances_created, assets_created) returned.
\* fail_at = j: the j-th balance entry raises (or the commit, when j =
\* Len(account_data) + 1) after the earlier steps wrote into the session.
\* Every exception rolls the whole session back and is raised again
IngestAccountData(committed, s, address, account_data, outcome, fail_at) ==
  IF outcome = "ok" /\ fail_at = 0
    THEN LET s1 == UpsertAccount(s, address)
             c  == BalanceLoop(s1, AccountIdOf(s1, address), account_data,
                               Len(account_data))
         IN  [committed |-> Commit(committed, c.s), s |-> Commit(committed, c.s),
              status |-> "ok", account_id |-> AccountIdOf(s1, address),
              balances_created |-> c.balances_created,
              assets_created |-> c.assets_created]
    ELSE [committed |-> committed, s |-> Rollback(committed, s),
          status |-> IF outcome = "ok" THEN "internal" ELSE outcome,
          account_id |-> NULL, balances_created |-> 0, assets_created |-> 0]

\* ingest_account for the detail of AccountData, no step after the fetch
\* raising
IngestAccountCall(committed, s, address, outcome) ==
  IngestAccountData(committed, s, address, AccountData(address), outcome, 0)

\* ingest_account as its own request, for a detail out of details
IngestAccountFrom(details) ==
  /\ Len(db.balances) < MaxBalances
  /\ \E address \in Addresses, outcome \in FetchOutcomes, account_data \in details :
     \E fail_at \in 0..(Len(account_data) + 1) :
       LET r == IngestAccountData(db, db, address, account_data, outcome, fail_at)
       IN  /\ db' = r.committed
           /\ ret' = [op |-> "ingest_account", status |-> r.status, address |-> address,
                      account_id |-> r.account_id,
                      balances_created |-> r.balances_created,
                      assets_created |-> r.assets_created, fetched |-> outcome,
                      account_data |-> IF r.status = "ok" THEN account_data ELSE << >>]
  /\ UNCHANGED <<now, client, sessions, limiter>>

IngestAccount == IngestAccountFrom({AccountData(address) : address \in Addresses})

\* ingest_account for every detail of the source
IngestAccountAny == IngestAccountFrom(AccountDetails)

WatchlistNames == {"w1"}

\* create_watchlist
CreateWatchlist ==
  /\ \E name \in WatchlistNames :
       IF \E w \in Rows(db.watchlists) : w.name = name
         THEN /\ db' = db
              /\ ret' = [op |-> "create_watchlist", status |-> "409"]
         ELSE /\ db' = [db EXCEPT !.watchlists = Append(@, [name |-> name])]
              /\ ret' = [op |-> "create_watchlist", status |-> "ok"]
  /\ UNCHANGED <<now, client, sessions, limiter>>

\* add_account_to_watchlist, for an address out of addresses
AddAccountToWatchlistOf(addresses) ==
  /\ \E watchlist_id \in 1..Cardinality(WatchlistNames), address \in addresses,
        outcome \in FetchOutcomes :
       IF watchlist_id \notin DOMAIN db.watchlists
         THEN /\ db' = db
              /\ ret' = [op |-> "add_account_to_watchlist", status |-> "404"]
         ELSE LET r == IF AccountIdOf(db, address) # NULL
                         THEN [committed |-> db, s |-> db, status |-> "ok"]
                         ELSE IngestAccountCall(db, db, address, outcome)
                  id == AccountIdOf(r.s, address)
              IN  IF r.status # "ok"
                    THEN /\ db' = r.committed
                         /\ ret' = [op |-> "add_account_to_watchlist",
                                    status |-> IF r.status = "not_found" THEN "404" ELSE "500"]
                  ELSE IF \E m \in Rows(r.s.members) :
                            m.watchlist_id = watchlist_id /\ m.account_id = id
                    THEN /\ db' = r.committed
                         /\ ret' = [op |-> "add_account_to_watchlist", status |-> "409"]
                  ELSE /\ db' = Commit(r.committed,
                                       [r.s EXCEPT !.members =
                                          Append(@, [watchlist_id |-> watchlist_id,
                                                     account_id |-> id])])
                       /\ ret' = [op |-> "add_account_to_watchlist", status |-> "ok"]
  /\ UNCHANGED <<now, client, sessions, limiter>>

AddAccountToWatchlist == AddAccountToWatchlistOf(Addresses)

\* the addresses that are put on a watchlist: the source accounts of the
\* transactions of TxLedger
WatchedAddresses == {"GA", "GB"}

\* _ingest_transaction: the transaction row only, its operations come with
\* the operations stream
IngestTransaction(s, tx) ==
  IF TxIdOf(s, tx.hash) # NULL THEN s
  ELSE LET s1 == UpsertAccount(s, tx.source_account)
       IN  [s1 EXCEPT !.txs =
              Append(@, [tx_hash |-> tx.hash, ledger |-> tx.ledger,
                         source_account_id |-> AccountIdOf(s1, tx.source_account)])]

RECURSIVE IngestTransactions(_, _, _)
IngestTransactions(s, txs, k) ==
  IF k = 0 THEN s ELSE IngestTransaction(IngestTransactions(s, txs, k - 1), txs[k])

\* fetch_account_transactions: the transactions of one source account
AccountTxs(address) == SelectSeq(TxLedger, LAMBDA t : t.source_account = address)

RefreshOutcomes == {"ok", "account_fail", "tx_fail"}

\* the accounts joined with watchlist_members, distinct, by id
RECURSIVE SortedIds(_)
SortedIds(S) ==
  IF S = {} THEN <<>>
  ELSE LET m == CHOOSE x \in S : \A y \in S : x <= y
       IN  <<m>> \o SortedIds(S \ {m})

WatchedAccounts(s) == SortedIds({m.account_id : m \in Rows(s.members)})

\* one iteration of the loop of ingest_watchlist_accounts; a failure is
\* caught, logged and counted
RefreshStep(c, account_id, outcome) ==
  LET address == c.committed.accounts[account_id].address
      r  == IngestAccountCall(c.committed, c.s, address,
                              IF outcome = "account_fail" THEN "error" ELSE "ok")
      s2 == IngestTransactions(r.s, AccountTxs(address), Len(AccountTxs(address)))
  IN  IF outcome = "ok"
        THEN [c EXCEPT !.committed = r.committed,
                       !.s = [s2 EXCEPT !.accounts[account_id].last_seen = now],
                       !.successful = @ + 1,
                       !.transactions_ingested = @ + (Len(s2.txs) - Len(r.s.txs))]
        ELSE [c EXCEPT !.committed = r.committed, !.s = r.s, !.failed = @ + 1]

RECURSIVE RefreshLoop(_, _, _, _)
RefreshLoop(c, ids, outcomes, k) ==
  IF k = 0 THEN c
  ELSE RefreshStep(RefreshLoop(c, ids, outcomes, k - 1), ids[k], outcomes[k])

\* ingest_watchlist_accounts, over stores with fewer than max balance rows
IngestWatchlistAccountsUpTo(max) ==
  /\ Len(db.balances) < max
  /\ LET ids == WatchedAccounts(db)
     IN  \E outcomes \in [1..Len(ids) -> RefreshOutcomes] :
           LET c == RefreshLoop([committed |-> db, s |-> db, successful |-> 0,
                                 failed |-> 0, transactions_ingested |-> 0],
                                ids, outcomes, Len(ids))
           IN  /\ db' = Commit(c.committed, c.s)
               /\ ret' = [op |-> "ingest_watchlist_accounts", status |-> "ok",
                          total_accounts |-> Len(ids), successful |-> c.successful,
                          failed |-> c.failed,
                          transactions_ingested |-> c.transactions_ingested,
                          ids |-> ids, outcomes |-> outcomes]
  /\ UNCHANGED <<now, client, sessions, limiter>>

IngestWatchlistAccounts == IngestWatchlistAccountsUpTo(MaxBalances)

----------------------------------------------------------------------------
(* Rule engine: deduplication and materialisation of findings              *)

ALERT_DEDUP_WINDOW_HOURS == 24

AlertRules == {"large_transfer", "new_counterparty", "rapid_outflow", "asset_concentration"}

Severities == {"low", "medium", "high", "critical"}

\* a table with the amounts of medium and high exchanged
SeverityScoreSwapped(severity) ==
  CASE severity = "low" -> 10
    [] severity = "medium" -> 50
    [] severity = "high" -> 25
    [] severity = "critical" -> 75
    [] OTHER -> 0

\* severity_scores.get(severity, 0)
SeverityScore(severity) ==
  CASE severity = "low" -> 10
    [] severity = "medium" -> 25
    [] severity = "high" -> 50
    [] severity = "critical" -> 75
    [] OTHER -> 0

Min(a, b) == IF a <= b THEN a ELSE b

\* evidence of a RuleResult: a key that is absent reads as '' in
\* evidence.get(key, '')
NoEvidence ==
  [transaction_hash |-> "", counterparty_account |-> "", window_start |-> "",
   concentration_percent |-> ""]

\* RULE_DORMANT_REACTIVATION_SEVERITY, the severity of the flag-creating rule
EngineSeverities == {"high"}

\* The RuleResults the rules can hand to the engine over store s when
\* RULE_DORMANT_REACTIVATION_SEVERITY is set to severity; every result a rule
\* builds has fired = True
RuleResultsOf(s, severity) ==
  { [rule_name |-> "large_transfer", fired |-> TRUE, account_id |-> a,
     asset_id |-> NULL, severity |-> "medium",
     evidence |-> [NoEvidence EXCEPT !.transaction_hash = "h1"]] :
       a \in DOMAIN s.accounts }
  \cup
  { [rule_name |-> "dormant_reactivation", fired |-> TRUE, account_id |-> a,
     asset_id |-> NULL, severity |-> severity, evidence |-> NoEvidence] :
       a \in DOMAIN s.accounts }
  \cup
  { [rule_name |-> "asset_concentration", fired |-> TRUE, account_id |-> NULL,
     asset_id |-> a, severity |-> "low",
     evidence |-> [NoEvidence EXCEPT !.concentration_percent = "85.0"]] :
       a \in DOMAIN s.assets }

\* the results under the default settings
RuleResults(s) == UNION { RuleResultsOf(s, severity) : severity \in EngineSeverities }

\* the position of a rule in RuleEngine.rules
RuleOrder(rule_name) ==
  CASE rule_name = "large_transfer" -> 1
    [] rule_name = "new_counterparty" -> 2
    [] rule_name = "dormant_reactivation" -> 3
    [] rule_name = "rapid_outflow" -> 4
    [] rule_name = "asset_concentration" -> 5

\* all_results with at most max findings: the results of the rules, one
\* rule after the other in the order of RuleEngine.rules
ResultSeqsOf(s, max, severity) ==
  { q \in UNION { [1..n -> RuleResultsOf(s, severity)] : n \in 0..max } :
      \A i, j \in DOMAIN q :
        i < j => RuleOrder(q[i].rule_name) <= RuleOrder(q[j].rule_name) }

ResultSeqs(s, max) ==
  UNION { ResultSeqsOf(s, max, severity) : severity \in EngineSeverities }

\* str(x or ''): None and 0 both give the empty string, written 0 here
IdStr(x) == IF x = NULL \/ x = 0 THEN 0 ELSE x

\* _create_dedup_key: the parts that are joined and hashed; the hash is
\* taken to separate different part lists
CreateDedupKey(result) ==
  << result.rule_name, IdStr(result.account_id), IdStr(result.asset_id) >> \o
  ( CASE result.rule_name = "large_transfer" -> << result.evidence.transaction_hash >>
      [] result.rule_name = "new_counterparty" -> << result.evidence.counterparty_account >>
      [] result.rule_name = "rapid_outflow" -> << result.evidence.window_start >>
      [] result.rule_name = "asset_concentration" -> << result.evidence.concentration_percent >>
      [] OTHER -> << >> )

IsDuplicateNoWindow(s, result, t) ==
  \/ \E a \in Rows(s.alerts) :
       /\ a.alert_type = result.rule_name
       /\ a.account_id = result.account_id
       /\ a.dedup_key = CreateDedupKey(result)
  \/ \E f \in Rows(s.flags) :
       /\ f.flag_type = result.rule_name
       /\ f.account_id = result.account_id
       /\ f.dedup_key = CreateDedupKey(result)

\* _is_duplicate at time t
IsDuplicate(s, result, t) ==
  LET dedup_key == CreateDedupKey(result)
      cutoff_time == t - ALERT_DEDUP_WINDOW_HOURS
  IN  \/ \E a \in Rows(s.alerts) :
           /\ a.alert_type = result.rule_name
           /\ a.account_id = result.account_id
           /\ a.created_at >= cutoff_time
           /\ a.dedup_key = dedup_key
      \/ \E f \in Rows(s.flags) :
           /\ f.flag_type = result.rule_name
           /\ f.account_id = result.account_id
           /\ f.created_at >= cutoff_time
           /\ f.dedup_key = dedup_key

\* _create_alert at time t (created_at is the server's now())
CreateAlert(s, result, t) ==
  [s EXCEPT !.alerts =
     Append(@, [account_id |-> result.account_id, asset_id |-> result.asset_id,
                alert_type |-> result.rule_name, severity |-> result.severity,
                evidence |-> result.evidence,
                          dedup_key |-> CreateDedupKey(result), created_at |-> t])]

CreateFlagUnclamped(s, result, t) ==
  LET s1 == [s EXCEPT !.flags =
               Append(@, [account_id |-> result.account_id,
                          flag_type |-> result.rule_name, severity |-> result.severity,
                          evidence |-> result.evidence,
                          dedup_key |-> CreateDedupKey(result), created_at |-> t])]
  IN  IF result.account_id # NULL /\ result.account_id \in DOMAIN s.accounts
        THEN [s1 EXCEPT !.accounts[result.account_id].risk_score =
                          @ + SeverityScore(result.severity),
                        !.accounts[result.account_id].last_seen = t]
        ELSE s1

\* _create_flag at time t
CreateFlag(s, result, t) ==
  LET s1 == [s EXCEPT !.flags =
               Append(@, [account_id |-> result.account_id,
                          flag_type |-> result.rule_name, severity |-> result.severity,
                          evidence |-> result.evidence,
                          dedup_key |-> CreateDedupKey(result), created_at |-> t])]
  IN  IF result.account_id # NULL /\ result.account_id \in DOMAIN s.accounts
        THEN [s1 EXCEPT !.accounts[result.account_id].risk_score =
                          Min(100, @ + SeverityScore(result.severity)),
                        !.accounts[result.account_id].last_seen = t]
        ELSE s1

\* the loop body without the dry_run branch
ProcessResultPersistsDryRun(c, result, dry_run, t) ==
  IF ~result.fired THEN c
  ELSE IF IsDuplicate(c.s, result, t)
    THEN [c EXCEPT !.duplicates_skipped = @ + 1]
  ELSE IF result.rule_name \in AlertRules
    THEN [c EXCEPT !.s = CreateAlert(@, result, t), !.alerts_created = @ + 1]
  ELSE [c EXCEPT !.s = CreateFlag(@, result, t), !.flags_created = @ + 1]

\* one iteration of the second loop of RuleEngine.run
ProcessResult(c, result, dry_run, t) ==
  IF ~result.fired THEN c
  ELSE IF IsDuplicate(c.s, result, t)
    THEN [c EXCEPT !.duplicates_skipped = @ + 1]
  ELSE IF dry_run THEN c
  ELSE IF result.rule_name \in AlertRules
    THEN [c EXCEPT !.s = CreateAlert(@, result, t), !.alerts_created = @ + 1]
  ELSE [c EXCEPT !.s = CreateFlag(@, result, t), !.flags_created = @ + 1]

RECURSIVE ProcessResults(_, _, _, _, _)
ProcessResults(c, results, dry_run, t, k) ==
  IF k = 0 THEN c
  ELSE ProcessResult(ProcessResults(c, results, dry_run, t, k - 1), results[k], dry_run, t)

RuleNames ==
  {"large_transfer", "new_counterparty", "dormant_reactivation", "rapid_outflow",
   "asset_concentration"}

\* What the evaluation of one rule of a run can raise: nothing, an error of
\* the rule's own code ("python"), or an error of one of its queries
\* ("database"), which leaves the transaction of the session aborted
NoFailure == [rule |-> "none", kind |-> "none"]

Failures ==
  {NoFailure} \cup { [rule |-> r, kind |-> k] : r \in RuleNames, k \in {"python", "database"} }

\* the rules whose evaluate raised into the except branch of the loop: the
\* branch logs and goes on without a rollback, so after a failed query every
\* later rule fails at its first query
FailedRules(raised) ==
  IF raised.rule = "none" THEN {}
  ELSE IF raised.kind = "python" THEN {raised.rule}
  ELSE { r \in RuleNames : RuleOrder(r) >= RuleOrder(raised.rule) }

\* RuleEngine.run: found is what the rules return when nothing fails, at
\* most max findings, and raised (one of failures) is what goes wrong;
\* all_results holds the results of the rules that returned.  Every created
\* record is committed on its own.  With the transaction aborted, the query
\* of the first _is_duplicate raises out of run and the task reports an
\* error.
RunEngineFor(max, failures, severities) ==
  /\ Len(db.flags) + Len(db.alerts) < MaxRecords
  /\ \E dry_run \in BOOLEAN, severity \in severities, raised \in failures :
     \E found \in ResultSeqsOf(db, max, severity) :
       LET failed == FailedRules(raised)
           all_results == SelectSeq(found, LAMBDA r : r.rule_name \notin failed)
           c == ProcessResults([s |-> db, alerts_created |-> 0, flags_created |-> 0,
                                duplicates_skipped |-> 0],
                               all_results, dry_run, now, Len(all_results))
       IN  IF raised.kind = "database" /\ all_results # <<>>
             THEN /\ db' = Rollback(db, db)
                  /\ ret' = [op |-> "rule_engine", status |-> "error", dry_run |-> dry_run,
                             results |-> all_results, alerts_created |-> 0,
                             flags_created |-> 0, duplicates_skipped |-> 0,
                             raised |-> raised, failed |-> failed]
             ELSE /\ db' = Commit(db, c.s)
                  /\ ret' = [op |-> "rule_engine", status |-> "ok", dry_run |-> dry_run,
                             results |-> all_results, alerts_created |-> c.alerts_created,
                             flags_created |-> c.flags_created,
                             duplicates_skipped |-> c.duplicates_skipped,
                             raised |-> raised, failed |-> failed]
  /\ UNCHANGED <<now, client, sessions, limiter>>

ManualFlagTypes == {"manual"}

\* the flag and the risk update of create_manual_flag; the caller's
\* evidence carries no dedup_key
ManualFlag(s, account_id, flag_type, severity, t) ==
  [s EXCEPT !.flags =
              Append(@, [account_id |-> account_id, flag_type |-> flag_type,
                         severity |-> severity, evidence |-> NoEvidence,
                         dedup_key |-> << >>, created_at |-> t]),
            !.accounts[account_id].risk_score = Min(100, @ + SeverityScore(severity)),
            !.accounts[account_id].last_seen = t]

\* create_manual_flag
CreateManualFlag ==
  /\ Len(db.flags) + Len(db.alerts) < MaxRecords
  /\ \E address \in Addresses, flag_type \in ManualFlagTypes,
        severity \in Severities \cup {"info"}, outcome \in FetchOutcomes :
       IF severity \notin Severities
         THEN /\ db' = db
              /\ ret' = [op |-> "create_manual_flag", status |-> "400"]
         ELSE LET r == IF AccountIdOf(db, address) # NULL
                         THEN [committed |-> db, s |-> db, status |-> "ok"]
                         ELSE IngestAccountCall(db, db, address, outcome)
              IN  IF r.status # "ok"
                    THEN /\ db' = r.committed
                         /\ ret' = [op |-> "create_manual_flag",
                                    status |-> IF r.status = "not_found" THEN "404" ELSE "500"]
                    ELSE /\ db' = Commit(r.committed,
                                         ManualFlag(r.s, AccountIdOf(r.s, address),
                                                    flag_type, severity, now))
                         /\ ret' = [op |-> "create_manual_flag", status |-> "ok"]
  /\ UNCHANGED <<now, client, sessions, limiter>>

\* runs under the default settings
RunEngineWith(max, failures) == RunEngineFor(max, failures, EngineSeverities)

\* runs in which every rule returns
RunEngineUpTo(max) == RunEngineWith(max, {NoFailure})

RunEngine == RunEngineUpTo(MaxResults)

\* runs in which the evaluation of a rule may raise
RunEngineFailing == RunEngineWith(MaxResults, Failures)

\* runs under every setting of RULE_DORMANT_REACTIVATION_SEVERITY
RunEngineSeverities == RunEngineFor(MaxResults, {NoFailure}, Severities)

\* the clock (datetime.utcnow() and the database's now()), in hours
Tick ==
  /\ now + TickHours <= MaxTime * TickHours
  /\ now' = now + TickHours
  /\ UNCHANGED <<db, ret, client, sessions, limiter>>

----------------------------------------------------------------------------
(* Horizon connector: the retry decorator around a fetch                   *)

Fetches ==
  {"fetch_account", "fetch_transactions", "fetch_operations",
   "fetch_transaction_detail", "fetch_transaction_operations",
   "fetch_account_transactions"}

Transient == {"StellarConnectionError", "BadResponseError", "TimeoutException"}

NonTransient == {"NotFoundError", "BadRequestError"}

\* what one underlying call to the source can do
Outcomes == {"ok"} \cup Transient \cup NonTransient

\* the exception types listed in retry_if_exception_type
RetryTypes(fn) ==
  IF fn = "fetch_account"
    THEN {"StellarConnectionError", "BadResponseError", "TimeoutException", "ConnectError"}
    ELSE {"StellarConnectionError", "BadResponseError", "TimeoutException"}

\* isinstance over the exception classes involved
IsSubclass(e, t) ==
  e = t \/ (e = "AccountNotFoundError" /\ t = "HorizonClientError")

\* What the body of a fetch raises for the outcome of its underlying call:
\* every except branch raises a HorizonClientError (fetch_account raises its
\* subclass AccountNotFoundError for NotFoundError)
BodyRaises(fn, outcome) ==
  IF outcome = "ok" THEN "none"
  ELSE IF fn = "fetch_account" /\ outcome = "NotFoundError" THEN "AccountNotFoundError"
  ELSE "HorizonClientError"

ShouldRetryAnyError(fn, exc) == exc # "none"

\* retry_if_exception_type applied to the exception that left the body
ShouldRetry(fn, exc) == \E t \in RetryTypes(fn) : IsSubclass(exc, t)

\* stop_after_attempt(3)
StopAfterAttempt == 3

IdleClient == [fn |-> "none", script |-> << >>, attempts |-> 0, result |-> "none"]

\* a caller starts a fetch; script is what the source will do at each
\* underlying call (it repeats its last answer)
ClientCall ==
  /\ client.result = "none"
  /\ \E fn \in Fetches, script \in [1..MaxCalls -> Outcomes] :
       client' = [fn |-> fn, script |-> script, attempts |-> 0, result |-> "pending"]
  /\ UNCHANGED <<db, ret, now, sessions, limiter>>

\* one attempt: the body makes one underlying call, the decorator retries,
\* gives up, or lets the result through
ClientAttempt ==
  /\ client.result = "pending"
  /\ LET n == client.attempts + 1
         outcome == client.script[Min(n, Len(client.script))]
         exc == BodyRaises(client.fn, outcome)
     IN  client' = [client EXCEPT
                      !.attempts = n,
                      !.result = IF exc = "none" THEN "ok"
                                 ELSE IF ~ShouldRetry(client.fn, exc) THEN exc
                                 ELSE IF n >= StopAfterAttempt THEN "RetryError"
                                 ELSE "pending"]
  /\ UNCHANGED <<db, ret, now, sessions, limiter>>

\* the caller has the result or the exception
ClientReturn ==
  /\ client.result \notin {"none", "pending"}
  /\ client' = IdleClient
  /\ UNCHANGED <<db, ret, now, sessions, limiter>>

----------------------------------------------------------------------------
(* Overlapping operations cycles: two database sessions (PostgreSQL, READ  *)
(* COMMITTED) that run ingest_operations_stream statement by statement     *)

SessionIds == {1, 2}

\* a session that runs no cycle; in a running cycle page[k] is the record
\* being processed, log holds the session's uncommitted writes, and
\* last_token / last_ledger are the locals of the cycle; status is how the
\* session's last cycle ended; peers holds the edge keys of the records of
\* the cycles that were in flight while this cycle ran
IdleSession ==
  [pc |-> "idle", page |-> <<>>, k |-> 0, log |-> <<>>, status |-> "none",
   last_token |-> NULL, last_ledger |-> NULL, peers |-> {}]

\* the edge key (from, to, asset) a payment record accumulates on
EdgeKey(op) == << op.from, op.to, op.asset_type, op.asset_code, op.asset_issuer >>

PageKeys(page) == { EdgeKey(page[n]) : n \in DOMAIN page }

\* an uncommitted write: the statement (w), the address or stream it names,
\* the record it was built from, and the values of a checkpoint write
Entry(w, address, op, token, ledger) ==
  [w |-> w, address |-> address, op |-> op, token |-> token, ledger |-> ledger]

\* two writes hit the same key of a unique index (or the same row); the
\* index of counterparty_edges never matches a NULL asset_id
Conflicts(e, f) ==
  /\ e.w = f.w
  /\ CASE e.w = "account" -> e.address = f.address
       [] e.w = "asset" -> /\ e.op.asset_code = f.op.asset_code
                           /\ e.op.asset_issuer = f.op.asset_issuer
       [] e.w = "tx" -> e.op.transaction_hash = f.op.transaction_hash
       [] e.w = "op" -> e.op.id = f.op.id
       [] e.w = "edge" -> /\ e.op.from = f.op.from /\ e.op.to = f.op.to
                          /\ e.op.asset_type # "native" /\ f.op.asset_type # "native"
                          /\ e.op.asset_code = f.op.asset_code
                          /\ e.op.asset_issuer = f.op.asset_issuer
       [] e.w = "ckpt" -> e.address = f.address
       [] OTHER -> FALSE

\* the sessions whose uncommitted writes make the statement of session i wait
Blockers(i, e) ==
  { j \in SessionIds \ {i} : \E f \in Rows(sessions[j].log) : Conflicts(f, e) }

\* a committed row already holds the unique key of the write
Stored(s, e) ==
  CASE e.w = "account" -> AccountIdOf(s, e.address) # NULL
    [] e.w = "asset" -> AssetIdOf(s, e.op.asset_code, e.op.asset_issuer) # NULL
    [] e.w = "tx" -> TxIdOf(s, e.op.transaction_hash) # NULL
    [] e.w = "op" -> \E r \in Rows(s.ops) : r.op_id = e.op.id
    [] OTHER -> FALSE

\* a query of session i finds a row: committed, or written by i itself
Sees(i, e) ==
  Stored(db, e) \/ \E f \in Rows(sessions[i].log) : Conflicts(f, e)

\* the write of a session at its position pc
PendingEntry(se) ==
  LET op == se.page[se.k]
  IN  CASE se.pc \in {"tx_acct_select", "tx_acct_insert"} ->
             Entry("account", TxDetail(op.transaction_hash).source_account, op, NULL, NULL)
        [] se.pc \in {"tx_select", "tx_insert"} -> Entry("tx", "", op, NULL, NULL)
        [] se.pc \in {"from_select", "from_insert"} -> Entry("account", op.from, op, NULL, NULL)
        [] se.pc \in {"to_select", "to_insert"} -> Entry("account", op.to, op, NULL, NULL)
        [] se.pc \in {"asset_select", "asset_insert"} -> Entry("asset", "", op, NULL, NULL)
        [] se.pc = "edge" -> Entry("edge", "", op, NULL, NULL)
        [] se.pc = "op" -> Entry("op", "", op, NULL, NULL)
        [] se.pc = "ckpt" ->
             Entry("ckpt", "operations_global", op, se.last_token, se.last_ledger)

SelectPcs == {"tx_select", "tx_acct_select", "from_select", "to_select", "asset_select"}

WritePcs == {"tx_acct_insert", "tx_insert", "from_insert", "to_insert",
             "asset_insert", "edge", "op", "ckpt"}

\* the loop moves to the next record of the page, or to the checkpoint
\* write ("if last_token") and the commit
AfterRecord(se) ==
  IF se.k < Len(se.page) THEN [se EXCEPT !.k = @ + 1, !.pc = "tx_select"]
  ELSE [se EXCEPT !.pc = IF se.last_token # NULL THEN "ckpt" ELSE "commit"]

\* where a session goes after the statement at pc; found tells what a
\* query returned
AfterStatement(se, found) ==
  LET op == se.page[se.k]
      asset_pc == IF op.asset_type # "native" THEN "asset_select" ELSE "edge"
  IN  CASE se.pc = "tx_select" -> [se EXCEPT !.pc = IF found THEN "from_select" ELSE "tx_acct_select"]
        [] se.pc = "tx_acct_select" -> [se EXCEPT !.pc = IF found THEN "tx_insert" ELSE "tx_acct_insert"]
        [] se.pc = "tx_acct_insert" -> [se EXCEPT !.pc = "tx_insert"]
        [] se.pc = "tx_insert" -> [se EXCEPT !.pc = "from_select"]
        [] se.pc = "from_select" -> [se EXCEPT !.pc = IF found THEN "to_select" ELSE "from_insert"]
        [] se.pc = "from_insert" -> [se EXCEPT !.pc = "to_select"]
        [] se.pc = "to_select" -> [se EXCEPT !.pc = IF found THEN asset_pc ELSE "to_insert"]
        [] se.pc = "to_insert" -> [se EXCEPT !.pc = asset_pc]
        [] se.pc = "asset_select" -> [se EXCEPT !.pc = IF found THEN "edge" ELSE "asset_insert"]
        [] se.pc = "asset_insert" -> [se EXCEPT !.pc = "edge"]
        [] se.pc = "edge" -> [se EXCEPT !.pc = "op"]
        [] se.pc = "op" -> AfterRecord(se)
        [] se.pc = "ckpt" -> [se EXCEPT !.pc = "commit"]

\* the except branch of the cycle: rollback, and the error goes to the caller
Aborted(se) == [IdleSession EXCEPT !.status = "error"]

\* the sessions that are inside a cycle
Running == { i \in SessionIds : sessions[i].pc # "idle" }

\* a cycle starts: it reads the checkpoint and fetches a page
ConcBegin ==
  /\ \E i \in SessionIds :
       /\ sessions[i].pc = "idle"
       /\ SumCount(db.edges) + Cardinality(Running) < MaxConcEdges
       /\ \E page \in Pages(OpLedger, MaxConcPage) :
            sessions' = [j \in SessionIds |->
              IF j = i
                THEN AfterRecord([IdleSession EXCEPT
                       !.page = page, !.status = "running",
                       !.peers = UNION { PageKeys(sessions[r].page) : r \in Running }])
              ELSE IF j \in Running
                THEN [sessions[j] EXCEPT !.peers = @ \cup PageKeys(page)]
              ELSE sessions[j]]
  /\ UNCHANGED <<db, ret, now, client, limiter>>

\* the records the source returns after a cursor, at most n of them (the
\* limit of the request, or the ledger as far as it had grown at the fetch)
PagesAfter(ledger, cursor, n) ==
  { SubSeq(ledger, cursor + 1, cursor + k) :
      k \in { j \in 0..n : cursor + j <= Len(ledger) } }

\* a cycle starts while another may be running: it reads the committed
\* checkpoint and fetches the records after that cursor
OverlapBegin ==
  /\ \E i \in SessionIds :
       /\ sessions[i].pc = "idle"
       /\ SumCount(db.edges) + Cardinality(Running) < MaxOverlapEdges
       /\ \E page \in PagesAfter(OpLedger, db.ckpt["operations_global"].last_paging_token,
                                  MaxOverlapPage) :
            sessions' = [j \in SessionIds |->
              IF j = i
                THEN AfterRecord([IdleSession EXCEPT
                       !.page = page, !.status = "running",
                       !.peers = UNION { PageKeys(sessions[r].page) : r \in Running }])
              ELSE IF j \in Running
                THEN [sessions[j] EXCEPT !.peers = @ \cup PageKeys(page)]
              ELSE sessions[j]]
  /\ UNCHANGED <<db, ret, now, client, limiter>>

\* a query: the existing transaction, or the first() of a get-or-create; at
\* the first query of a record the loop has set last_token, and a record
\* whose transaction detail cannot be fetched is skipped
ConcSelect ==
  /\ \E i \in SessionIds :
       LET se == sessions[i] IN
       /\ se.pc \in SelectPcs
       /\ LET found == Sees(i, PendingEntry(se))
              op == se.page[se.k]
              s1 == IF se.pc = "tx_select"
                      THEN [se EXCEPT !.last_token = op.paging_token,
                                      !.last_ledger = IF op.ledger # NULL THEN op.ledger ELSE @]
                      ELSE se
          IN  \E detail_ok \in BOOLEAN :
                sessions' = [sessions EXCEPT ![i] =
                  IF se.pc = "tx_select" /\ ~found /\ ~detail_ok
                    THEN AfterRecord(s1) ELSE AfterStatement(s1, found)]
  /\ UNCHANGED <<db, ret, now, client, limiter>>

\* an INSERT: it waits while another session holds an uncommitted write on
\* the same key; then a plain insert (session.add and flush) of a key that
\* is committed fails with IntegrityError, an insert with
\* on_conflict_do_nothing writes nothing, and an insert with
\* on_conflict_do_update is applied to the committed row
ConcWrite ==
  /\ \E i \in SessionIds :
       LET se == sessions[i] IN
       /\ se.pc \in WritePcs
       /\ LET e == PendingEntry(se)
          IN  /\ Blockers(i, e) = {}
              /\ sessions' = [sessions EXCEPT ![i] =
                   IF e.w \in {"account", "asset"} /\ Stored(db, e) THEN Aborted(se)
                   ELSE IF e.w = "tx" /\ Stored(db, e) THEN AfterStatement(se, TRUE)
                   ELSE IF e.w = "op" /\ Stored(db, e)
                     THEN AfterStatement([se EXCEPT !.log = Append(@, [e EXCEPT !.w = "replay"])], TRUE)
                   ELSE AfterStatement([se EXCEPT !.log = Append(@, e)], TRUE)]
  /\ UNCHANGED <<db, ret, now, client, limiter>>

\* two sessions wait for each other: the database ends one of them with a
\* deadlock error
ConcDeadlock ==
  /\ \E i \in SessionIds, j \in SessionIds :
       /\ i # j
       /\ sessions[i].pc \in WritePcs /\ sessions[j].pc \in WritePcs
       /\ j \in Blockers(i, PendingEntry(sessions[i]))
       /\ i \in Blockers(j, PendingEntry(sessions[j]))
       /\ sessions' = [sessions EXCEPT ![i] = Aborted(@)]
  /\ UNCHANGED <<db, ret, now, client, limiter>>

\* one uncommitted write becomes part of the committed store; the ids it
\* refers to are those of the rows of its addresses
ApplyWrite(s, e) ==
  LET f == AccountIdOf(s, e.op.from)
      t == AccountIdOf(s, e.op.to)
      a == IF e.op.asset_type # "native"
             THEN AssetIdOf(s, e.op.asset_code, e.op.asset_issuer) ELSE NULL
      tx == TxDetail(e.op.transaction_hash)
  IN  CASE e.w = "account" ->
             [s EXCEPT !.accounts =
                Append(@, [address |-> e.address, risk_score |-> 0, last_seen |-> now])]
        [] e.w = "asset" ->
             [s EXCEPT !.assets = Append(@, [asset_code |-> e.op.asset_code,
                                             asset_issuer |-> e.op.asset_issuer,
                                             asset_type |-> e.op.asset_type])]
        [] e.w = "tx" ->
             [s EXCEPT !.txs = Append(@, [tx_hash |-> tx.hash, ledger |-> tx.ledger,
                                          source_account_id |-> AccountIdOf(s, tx.source_account)])]
        [] e.w = "edge" -> UpsertCounterpartyEdge(s, f, t, a, e.op.amount)
        [] e.w = "op" ->
             [s EXCEPT !.ops = Append(@, [op_id |-> e.op.id,
                                          tx_id |-> TxIdOf(s, e.op.transaction_hash),
                                          type |-> e.op.type,
                                          from_account_id |-> f, to_account_id |-> t,
                                          asset_id |-> a, amount |-> e.op.amount])]
        [] e.w = "replay" -> [s EXCEPT !.replayed = TRUE]
        [] e.w = "ckpt" -> UpdateIngestionState(s, e.address, e.token, e.ledger)

RECURSIVE ApplyLog(_, _, _)
ApplyLog(s, log, k) ==
  IF k = 0 THEN s ELSE ApplyWrite(ApplyLog(s, log, k - 1), log[k])

\* Session.commit() of a cycle
ConcCommit ==
  /\ \E i \in SessionIds :
       /\ sessions[i].pc = "commit"
       /\ db' = ApplyLog(db, sessions[i].log, Len(sessions[i].log))
       /\ sessions' = [sessions EXCEPT ![i] = [IdleSession EXCEPT !.status = "ok"]]
  /\ UNCHANGED <<ret, now, client, limiter>>

----------------------------------------------------------------------------
(* Overlapping flag creations: the rule engine's _create_flag and the      *)
(* manual flag endpoint, each in a session of its own                      *)

\* the risk scores an account can have when the creations start
RaceScores == {0, 10, 60, 100}

RaceFlagTypes == {"dormant_reactivation", "manual"}

\* a store with one account of the given risk score
RaceStore(score) ==
  [EmptyStore EXCEPT
     !.accounts = << [address |-> "GA", risk_score |-> score, last_seen |-> 0] >>]

\* the session loads the account: the ORM object holds the risk_score that
\* is committed at that time
FlagLoadAccount ==
  /\ \E i \in SessionIds, account_id \in DOMAIN db.accounts,
        flag_type \in RaceFlagTypes, severity \in Severities :
       /\ sessions[i].pc = "idle"
       /\ Len(db.flags) + Cardinality({ j \in SessionIds : sessions[j].pc = "flag" })
            < MaxRaceRecords
       /\ sessions' = [sessions EXCEPT ![i] =
            [IdleSession EXCEPT
               !.pc = "flag", !.status = "running",
               !.log = << [account_id |-> account_id, flag_type |-> flag_type,
                           severity |-> severity,
                           risk_score |-> db.accounts[account_id].risk_score] >>]]
  /\ UNCHANGED <<db, ret, now, client, limiter>>

\* the flag is added, account.risk_score is assigned from the loaded value,
\* and the commit writes the flag row and the assigned score
FlagStore(s, w, t) ==
  [s EXCEPT !.flags =
              Append(@, [account_id |-> w.account_id, flag_type |-> w.flag_type,
                         severity |-> w.severity, evidence |-> NoEvidence,
                         dedup_key |-> << >>, created_at |-> t]),
            !.accounts[w.account_id].risk_score =
              Min(100, w.risk_score + SeverityScore(w.severity)),
            !.accounts[w.account_id].last_seen = t]

FlagCommit ==
  /\ \E i \in SessionIds :
       /\ sessions[i].pc = "flag"
       /\ db' = FlagStore(db, sessions[i].log[1], now)
       /\ sessions' = [sessions EXCEPT ![i] = [IdleSession EXCEPT !.status = "ok"]]
  /\ UNCHANGED <<ret, now, client, limiter>>

----------------------------------------------------------------------------
(* Overlapping engine runs: the result loop of RuleEngine.run in two       *)
(* sessions, one finding at a time                                         *)

\* _is_duplicate of a run for a finding; a duplicate is skipped
EngineDedupCheck ==
  /\ \E i \in SessionIds, result \in RuleResults(db) :
       /\ sessions[i].pc = "idle"
       /\ Len(db.flags) + Len(db.alerts)
            + Cardinality({ j \in SessionIds : sessions[j].pc = "create" })
            < MaxRaceRecords
       /\ sessions' = [sessions EXCEPT ![i] =
            IF IsDuplicate(db, result, now)
              THEN [IdleSession EXCEPT !.status = "duplicate"]
              ELSE [IdleSession EXCEPT !.pc = "create", !.status = "running",
                                       !.log = << result >>]]
  /\ UNCHANGED <<db, ret, now, client, limiter>>

\* _create_alert or _create_flag of a run for the finding it checked, and
\* the commit
EngineCreate ==
  /\ \E i \in SessionIds :
       /\ sessions[i].pc = "create"
       /\ LET result == sessions[i].log[1]
          IN  db' = IF result.rule_name \in AlertRules
                      THEN CreateAlert(db, result, now)
                      ELSE CreateFlag(db, result, now)
       /\ sessions' = [sessions EXCEPT ![i] = [IdleSession EXCEPT !.status = "ok"]]
  /\ UNCHANGED <<ret, now, client, limiter>>

----------------------------------------------------------------------------
(* The Large Transfer rule.  Times are in hours; an amount is a Decimal of  *)
(* the column Numeric(20, 7), written as its whole part and its seven      *)
(* decimal places.                                                         *)

RULE_LARGE_TRANSFER_THRESHOLD == 10000

Dec(whole, frac) == [whole |-> whole, frac |-> frac]

\* the amount None of a row
NoAmount == Dec(NULL, NULL)

\* a >= b on Decimals
Geq(a, b) == a.whole > b.whole \/ (a.whole = b.whole /\ a.frac >= b.frac)

\* Decimal(str(settings.RULE_LARGE_TRANSFER_THRESHOLD))
Threshold == Dec(RULE_LARGE_TRANSFER_THRESHOLD, 0)

\* the amounts "15000", "10000" and "9999.9999999" of raw records
TransferAmounts == {Dec(15000, 0), Dec(10000, 0), Dec(9999, 9999999)}

TransferTimes == 0..2

\* the rows _upsert_operation stores for the operations of transaction 1
\* between accounts 1 and 2: a payment-class operation and a create_account
\* carry sender (from / funder) and amount (amount / starting_balance),
\* every other type carries neither
TransferOps ==
  { [op_id |-> "o1", tx_id |-> 1, type |-> type, from_account_id |-> f,
     to_account_id |-> 3 - f, asset_id |-> NULL, amount |-> amount,
     created_at |-> t] :
       type \in PaymentTypes \cup {"create_account"}, f \in {1, 2},
       amount \in TransferAmounts, t \in TransferTimes }
  \cup
  { [op_id |-> "o1", tx_id |-> 1, type |-> "manage_sell_offer",
     from_account_id |-> NULL, to_account_id |-> NULL, asset_id |-> NULL,
     amount |-> NoAmount, created_at |-> t] : t \in TransferTimes }

\* the stores the rule is evaluated over: two accounts, a watchlist with
\* the accounts of watched, one transaction and its operations
TransferStore(watched, successful, ops) ==
  [EmptyStore EXCEPT
     !.accounts = << [address |-> "GA", risk_score |-> 0, last_seen |-> 0],
                     [address |-> "GB", risk_score |-> 0, last_seen |-> 0] >>,
     !.watchlists = << [name |-> "w1"] >>,
     !.members = [k \in 1..Len(SortedIds(watched)) |->
                    [watchlist_id |-> 1, account_id |-> SortedIds(watched)[k]]],
     !.txs = << [tx_hash |-> "h1", ledger |-> 11, source_account_id |-> 1,
                 successful |-> successful] >>,
     !.ops = ops]

\* the tables of n operations, one row of TransferOps each under its own
\* op_id
TransferOpSeqs(n) ==
  { [k \in 1..n |-> [q[k] EXCEPT !.op_id = IF k = 1 THEN "o1" ELSE "o2"]] :
      q \in [1..n -> TransferOps] }

\* the query of evaluate for one watched account, at time t
LargeOps(s, account_id, t) ==
  LET cutoff_time == t - 1
  IN  SelectSeq(s.ops, LAMBDA o :
        /\ o.from_account_id = account_id
        /\ o.amount # NoAmount /\ Geq(o.amount, Threshold)
        /\ o.created_at >= cutoff_time
        /\ o.tx_id \in DOMAIN s.txs /\ s.txs[o.tx_id].successful)

\* the RuleResult built for one row of the query
LargeTransferResult(s, account_id, o) ==
  [rule_name |-> "large_transfer", fired |-> TRUE, account_id |-> account_id,
   asset_id |-> o.asset_id, severity |-> "medium",
   evidence |-> [transaction_hash |-> s.txs[o.tx_id].tx_hash,
                 counterparty_account |-> "", window_start |-> "",
                 concentration_percent |-> "", operation_id |-> o.op_id,
                 operation_type |-> o.type]]

RECURSIVE LargeTransferLoop(_, _, _, _)
LargeTransferLoop(s, accounts, t, k) ==
  IF k = 0 THEN << >>
  ELSE LET large_ops == LargeOps(s, accounts[k], t)
       IN  LargeTransferLoop(s, accounts, t, k - 1) \o
           [j \in DOMAIN large_ops |-> LargeTransferResult(s, accounts[k], large_ops[j])]

\* LargeTransferRule.evaluate at time t
LargeTransferEvaluate(s, t) ==
  LargeTransferLoop(s, WatchedAccounts(s), t, Len(WatchedAccounts(s)))

EvaluateLargeTransfer ==
  /\ ret' = [op |-> "large_transfer", status |-> "ok",
             results |-> LargeTransferEvaluate(db, now)]
  /\ UNCHANGED <<db, now, client, sessions, limiter>>

----------------------------------------------------------------------------
(* The Dormant Reactivation rule.  Times are in hours.                     *)

\* RULE_DORMANT_DAYS_THRESHOLD, in days
RULE_DORMANT_DAYS_THRESHOLD == 30

HoursPerDay == 24

RULE_DORMANT_AMOUNT_THRESHOLD == 1000

\* Decimal(str(settings.RULE_DORMANT_AMOUNT_THRESHOLD))
DormantAmountThreshold == Dec(RULE_DORMANT_AMOUNT_THRESHOLD, 0)

\* the time the rule is evaluated at in the stores below
DormantNow == RULE_DORMANT_DAYS_THRESHOLD * HoursPerDay + 1

\* last_seen of an account: never set, before, at and after dormant_cutoff
DormantLastSeens == {NULL, 0, 1, DormantNow - 1}

DormantAmounts == {Dec(1000, 0), Dec(999, 9999999)}

\* created_at of an operation: before, at and after recent_cutoff
DormantTimes == (DormantNow - 2)..DormantNow

\* the rows _upsert_operation stores, as in TransferOps
DormantOps ==
  { [op_id |-> "o1", tx_id |-> 1, type |-> type, from_account_id |-> f,
     to_account_id |-> 3 - f, asset_id |-> NULL, amount |-> amount,
     created_at |-> t] :
       type \in {"payment", "create_account"}, f \in {1, 2},
       amount \in DormantAmounts, t \in DormantTimes }
  \cup
  { [op_id |-> "o1", tx_id |-> 1, type |-> "manage_sell_offer",
     from_account_id |-> NULL, to_account_id |-> NULL, asset_id |-> NULL,
     amount |-> NoAmount, created_at |-> t] : t \in DormantTimes }

DormantOpSeqs(n) ==
  { [k \in 1..n |-> [q[k] EXCEPT !.op_id = IF k = 1 THEN "o1" ELSE "o2"]] :
      q \in [1..n -> DormantOps] }

\* the stores the rule is evaluated over: TransferStore with the last_seen
\* of the two accounts
DormantStore(watched, seen, successful, ops) ==
  [TransferStore(watched, successful, ops) EXCEPT
     !.accounts = << [address |-> "GA", risk_score |-> 0, last_seen |-> seen[1]],
                     [address |-> "GB", risk_score |-> 0, last_seen |-> seen[2]] >>]

\* the query of evaluate for one dormant account, at time t
RecentOps(s, account_id, t) ==
  LET recent_cutoff == t - 1
  IN  SelectSeq(s.ops, LAMBDA o :
        /\ o.from_account_id = account_id
        /\ o.amount # NoAmount /\ Geq(o.amount, DormantAmountThreshold)
        /\ o.created_at >= recent_cutoff
        /\ o.tx_id \in DOMAIN s.txs /\ s.txs[o.tx_id].successful)

\* the RuleResult built for one row of the query
DormantResult(s, account_id, o) ==
  [rule_name |-> "dormant_reactivation", fired |-> TRUE, account_id |-> account_id,
   asset_id |-> o.asset_id, severity |-> "high",
   evidence |-> [transaction_hash |-> s.txs[o.tx_id].tx_hash,
                 counterparty_account |-> "", window_start |-> "",
                 concentration_percent |-> "", operation_id |-> o.op_id,
                 operation_type |-> o.type]]

\* the loop over the watched accounts.  account.last_seen is read from a
\* DateTime(timezone=True) column and dormant_cutoff is the naive
\* datetime.utcnow() - timedelta(days): when the driver hands the column back
\* offset-aware (aware), the comparison raises TypeError
RECURSIVE DormantLoop(_, _, _, _, _)
DormantLoop(s, accounts, t, aware, k) ==
  IF k = 0 THEN [status |-> "ok", results |-> << >>]
  ELSE LET before == DormantLoop(s, accounts, t, aware, k - 1)
           account == s.accounts[accounts[k]]
           dormant_cutoff == t - RULE_DORMANT_DAYS_THRESHOLD * HoursPerDay
           recent_ops == RecentOps(s, accounts[k], t)
       IN  IF before.status # "ok" THEN before
           ELSE IF account.last_seen = NULL THEN before
           ELSE IF aware THEN [status |-> "TypeError", results |-> << >>]
           ELSE IF account.last_seen > dormant_cutoff THEN before
           ELSE [before EXCEPT !.results = @ \o
                   [j \in DOMAIN recent_ops |->
                      DormantResult(s, accounts[k], recent_ops[j])]]

\* DormantReactivationRule.evaluate at time t
DormantEvaluate(s, t, aware) ==
  DormantLoop(s, WatchedAccounts(s), t, aware, Len(WatchedAccounts(s)))

EvaluateDormant ==
  /\ \E aware \in BOOLEAN :
       LET r == DormantEvaluate(db, now, aware)
       IN  ret' = [op |-> "dormant_reactivation", status |-> r.status,
                   aware |-> aware, results |-> r.results]
  /\ UNCHANGED <<db, now, client, sessions, limiter>>

----------------------------------------------------------------------------
(* The New Counterparty rule.  Times are in hours.                         *)

RULE_NEW_COUNTERPARTY_THRESHOLD == 5000

\* the filter of the two edge queries of evaluate, at time t
NewEdge(e, t) ==
  LET cutoff_time == t - 1
  IN  /\ e.last_seen >= cutoff_time
      /\ e.tx_count = 1
      /\ e.total_amount >= RULE_NEW_COUNTERPARTY_THRESHOLD

\* the RuleResult built for an edge of account_id with counterparty
NewCounterpartyResult(s, account_id, counterparty, e, direction) ==
  [rule_name |-> "new_counterparty", fired |-> TRUE, account_id |-> account_id,
   asset_id |-> e.asset_id, severity |-> "medium",
   evidence |-> [transaction_hash |-> "",
                 counterparty_account |-> s.accounts[counterparty].address,
                 window_start |-> "", concentration_percent |-> "",
                 direction |-> direction]]

\* new_edges_out and new_edges_in of one watched account and their results
NewEdgesOut(s, account_id, t) ==
  SelectSeq(s.edges, LAMBDA e : e.from_account_id = account_id /\ NewEdge(e, t))

NewEdgesIn(s, account_id, t) ==
  SelectSeq(s.edges, LAMBDA e : e.to_account_id = account_id /\ NewEdge(e, t))

RECURSIVE NewCounterpartyLoop(_, _, _, _)
NewCounterpartyLoop(s, accounts, t, k) ==
  IF k = 0 THEN << >>
  ELSE LET new_edges_out == NewEdgesOut(s, accounts[k], t)
           new_edges_in == NewEdgesIn(s, accounts[k], t)
       IN  NewCounterpartyLoop(s, accounts, t, k - 1) \o
           [j \in DOMAIN new_edges_out |->
              NewCounterpartyResult(s, accounts[k], new_edges_out[j].to_account_id,
                                    new_edges_out[j], "outgoing")] \o
           [j \in DOMAIN new_edges_in |->
              NewCounterpartyResult(s, accounts[k], new_edges_in[j].from_account_id,
                                    new_edges_in[j], "incoming")]

\* NewCounterpartyRule.evaluate at time t
NewCounterpartyEvaluate(s, t) ==
  NewCounterpartyLoop(s, WatchedAccounts(s), t, Len(WatchedAccounts(s)))

EvaluateNewCounterparty ==
  /\ ret' = [op |-> "new_counterparty", status |-> "ok",
             results |-> NewCounterpartyEvaluate(db, now)]
  /\ UNCHANGED <<db, now, client, sessions, limiter>>

----------------------------------------------------------------------------
(* The Rapid Outflow rule.  Times are in minutes.                          *)

RULE_RAPID_OUTFLOW_TX_COUNT == 10

RULE_RAPID_OUTFLOW_MINUTES == 60

\* the time the rule is evaluated at in the stores below
OutflowNow == 2 * RULE_RAPID_OUTFLOW_MINUTES

\* n operation rows of one kind: type, sender, transaction, created_at
OutflowRows(n, type, f, tx_id, t) ==
  [k \in 1..n |->
     [op_id |-> "", tx_id |-> tx_id, type |-> type,
      from_account_id |-> IF type = "manage_sell_offer" THEN NULL ELSE f,
      to_account_id |-> IF type = "manage_sell_offer" THEN NULL ELSE 3 - f,
      asset_id |-> NULL,
      amount |-> IF type = "manage_sell_offer" THEN NoAmount ELSE Dec(1, 0),
      created_at |-> t]]

\* The operations table of a store, by the numbers of its rows: recent[f]
\* payments of account f inside the window (one of them exactly at the
\* cutoff), old payments of account 1 before the window, funded
\* create_account operations and offers of account 1 inside the window, and
\* failed payments of account 1 inside the window, in the failed
\* transaction 2
OutflowOps(recent, old, funded, failed) ==
  LET rows ==
        OutflowRows(IF recent[1] > 0 THEN 1 ELSE 0, "payment", 1, 1,
                    OutflowNow - RULE_RAPID_OUTFLOW_MINUTES) \o
        OutflowRows(IF recent[1] > 0 THEN recent[1] - 1 ELSE 0,
                    "path_payment_strict_send", 1, 1, OutflowNow) \o
        OutflowRows(recent[2], "path_payment_strict_receive", 2, 1, OutflowNow) \o
        OutflowRows(old, "payment", 1, 1, OutflowNow - RULE_RAPID_OUTFLOW_MINUTES - 1) \o
        OutflowRows(funded, "create_account", 1, 1, OutflowNow) \o
        OutflowRows(funded, "manage_sell_offer", 1, 1, OutflowNow) \o
        OutflowRows(failed, "payment", 1, 2, OutflowNow)
  IN  [k \in DOMAIN rows |-> [rows[k] EXCEPT !.op_id = "o" \o ToString(k)]]

\* the stores the rule is evaluated over: two accounts, a watchlist with
\* the accounts of watched, a successful and a failed transaction
OutflowStore(watched, ops) ==
  [TransferStore(watched, TRUE, ops) EXCEPT
     !.txs = << [tx_hash |-> "h1", ledger |-> 11, source_account_id |-> 1,
                 successful |-> TRUE],
                [tx_hash |-> "h2", ledger |-> 12, source_account_id |-> 1,
                 successful |-> FALSE] >>]

\* a query that leaves out the filter on Operation.type
OutgoingOpsAnyType(s, account_id, t) ==
  LET cutoff_time == t - RULE_RAPID_OUTFLOW_MINUTES
  IN  SelectSeq(s.ops, LAMBDA o :
        /\ o.from_account_id = account_id
        /\ o.created_at >= cutoff_time
        /\ o.tx_id \in DOMAIN s.txs /\ s.txs[o.tx_id].successful)

\* the query of evaluate for one watched account, at time t
OutgoingOps(s, account_id, t) ==
  LET cutoff_time == t - RULE_RAPID_OUTFLOW_MINUTES
  IN  SelectSeq(s.ops, LAMBDA o :
        /\ o.from_account_id = account_id
        /\ o.created_at >= cutoff_time
        /\ o.tx_id \in DOMAIN s.txs /\ s.txs[o.tx_id].successful
        /\ o.type \in PaymentTypes)

\* the RuleResult built for an account over the threshold
OutflowResult(s, account_id, op_count, t) ==
  [rule_name |-> "rapid_outflow", fired |-> TRUE, account_id |-> account_id,
   asset_id |-> NULL, severity |-> "high",
   evidence |-> [transaction_hash |-> "", counterparty_account |-> "",
                 window_start |-> t - RULE_RAPID_OUTFLOW_MINUTES,
                 concentration_percent |-> "", operation_count |-> op_count]]

RECURSIVE OutflowLoop(_, _, _, _)
OutflowLoop(s, accounts, t, k) ==
  IF k = 0 THEN << >>
  ELSE LET op_count == Len(OutgoingOps(s, accounts[k], t))
       IN  OutflowLoop(s, accounts, t, k - 1) \o
           ( IF op_count >= RULE_RAPID_OUTFLOW_TX_COUNT
               THEN << OutflowResult(s, accounts[k], op_count, t) >>
               ELSE << >> )

\* RapidOutflowRule.evaluate at time t
OutflowEvaluate(s, t) ==
  OutflowLoop(s, WatchedAccounts(s), t, Len(WatchedAccounts(s)))

EvaluateOutflow ==
  /\ ret' = [op |-> "rapid_outflow", status |-> "ok",
             results |-> OutflowEvaluate(db, now)]
  /\ UNCHANGED <<db, now, client, sessions, limiter>>

\* the period of the run-rule-engine entry of the beat schedule
RULE_ENGINE_INTERVAL_MINUTES == 5

\* RuleEngine.run with the Rapid Outflow rule as the rule that fires: the
\* findings of evaluate at the time of the run go through the result loop.
\* The clock of these runs stays within ALERT_DEDUP_WINDOW_HOURS units of
\* its start, so every stored alert is inside the deduplication window.
RunOutflowEngine ==
  /\ Len(db.alerts) < MaxOutflowAlerts
  /\ \E dry_run \in BOOLEAN :
       LET all_results == OutflowEvaluate(db, now)
           c == ProcessResults([s |-> db, alerts_created |-> 0, flags_created |-> 0,
                                duplicates_skipped |-> 0],
                               all_results, dry_run, now, Len(all_results))
       IN  /\ db' = Commit(db, c.s)
           /\ ret' = [op |-> "rule_engine", status |-> "ok", dry_run |-> dry_run,
                      results |-> all_results, alerts_created |-> c.alerts_created,
                      flags_created |-> c.flags_created,
                      duplicates_skipped |-> c.duplicates_skipped,
                      raised |-> NoFailure, failed |-> {}]
  /\ UNCHANGED <<now, client, sessions, limiter>>

\* the time between two scheduled runs
OutflowInterval ==
  /\ now + RULE_ENGINE_INTERVAL_MINUTES
       <= OutflowNow + MaxOutflowRuns * RULE_ENGINE_INTERVAL_MINUTES
  /\ now + RULE_ENGINE_INTERVAL_MINUTES <= OutflowNow + ALERT_DEDUP_WINDOW_HOURS
  /\ now' = now + RULE_ENGINE_INTERVAL_MINUTES
  /\ UNCHANGED <<db, ret, client, sessions, limiter>>

----------------------------------------------------------------------------
(* The Asset Concentration rule.  Balances are whole units.                *)

RULE_ASSET_CONCENTRATION_PERCENT == 80

\* .limit(10) of the top_holders query
TopHolderLimit == 10

\* the time of the latest snapshots in the stores below
ConcentrationNow == 2

\* The account_balances table of a store.  Account 1 holds big units of
\* asset 1 in its latest snapshot, after an older snapshot of another
\* balance when old holds, and with a second snapshot of the same time and
\* balance when tied holds; accounts 2 .. n + 1 hold small units each;
\* account 1 holds native lumens, and one unit of asset 2 when second holds
ConcentrationBalances(big, n, small, old, tied, second) ==
  ( IF old THEN << [account_id |-> 1, asset_id |-> 1, balance |-> 4 * big + 40,
                    snapshot_at |-> ConcentrationNow - 1] >> ELSE << >> ) \o
  << [account_id |-> 1, asset_id |-> 1, balance |-> big,
      snapshot_at |-> ConcentrationNow] >> \o
  << [account_id |-> 1, asset_id |-> NULL, balance |-> 100,
      snapshot_at |-> ConcentrationNow] >> \o
  [k \in 1..n |-> [account_id |-> k + 1, asset_id |-> 1, balance |-> small,
                   snapshot_at |-> ConcentrationNow - (k % 2)]] \o
  ( IF tied THEN << [account_id |-> 1, asset_id |-> 1, balance |-> big,
                     snapshot_at |-> ConcentrationNow] >> ELSE << >> ) \o
  ( IF second THEN << [account_id |-> 1, asset_id |-> 2, balance |-> 1,
                       snapshot_at |-> ConcentrationNow] >> ELSE << >> )

\* the stores the rule is evaluated over: n + 1 accounts, two assets
ConcentrationStore(n, balances) ==
  [EmptyStore EXCEPT
     !.accounts = [k \in 1..(n + 1) |->
                     [address |-> "G" \o ToString(k), risk_score |-> 0,
                      last_seen |-> 0]],
     !.assets = << [asset_code |-> "USD", asset_issuer |-> "GI",
                    asset_type |-> "credit_alphanum4"],
                   [asset_code |-> "EUR", asset_issuer |-> "GI",
                    asset_type |-> "credit_alphanum4"] >>,
     !.balances = balances]

\* the subquery: per account, the greatest snapshot_at of its snapshots of
\* the asset
MaxSnapshot(s, asset_id, account_id) ==
  LET times == { b.snapshot_at : b \in { r \in Rows(s.balances) :
                   r.asset_id = asset_id /\ r.account_id = account_id } }
  IN  CHOOSE t \in times : \A u \in times : u <= t

\* the join of account_balances with the subquery and with accounts: the
\* snapshot rows of the asset taken at the greatest snapshot_at of their
\* account
LatestBalances(s, asset_id) ==
  SelectSeq(s.balances, LAMBDA b :
    /\ b.asset_id = asset_id
    /\ b.account_id \in DOMAIN s.accounts
    /\ b.snapshot_at = MaxSnapshot(s, asset_id, b.account_id))

\* order_by(desc(balance))
RECURSIVE OrderByBalanceDesc(_)
OrderByBalanceDesc(rows) ==
  IF rows = << >> THEN << >>
  ELSE LET i == CHOOSE i \in DOMAIN rows :
                  /\ \A j \in DOMAIN rows : rows[j].balance <= rows[i].balance
                  /\ \A j \in 1..(i - 1) : rows[j].balance < rows[i].balance
       IN  << rows[i] >> \o
           OrderByBalanceDesc(SubSeq(rows, 1, i - 1) \o SubSeq(rows, i + 1, Len(rows)))

\* the top_holders query
TopHolders(s, asset_id) ==
  LET rows == OrderByBalanceDesc(LatestBalances(s, asset_id))
  IN  SubSeq(rows, 1, IF Len(rows) < TopHolderLimit THEN Len(rows) ELSE TopHolderLimit)

RECURSIVE SumBalance(_)
SumBalance(rows) ==
  IF rows = << >> THEN 0 ELSE Head(rows).balance + SumBalance(Tail(rows))

\* round(concentration_percent, 2), in hundredths of a percent
ConcentrationPercent(top_10_total, total_supply) ==
  (2 * 10000 * top_10_total + total_supply) \div (2 * total_supply)

\* the RuleResult built for an asset over the threshold
ConcentrationResult(s, asset_id, top_10_total, total_supply, holders) ==
  [rule_name |-> "asset_concentration", fired |-> TRUE, account_id |-> NULL,
   asset_id |-> asset_id, severity |-> "low",
   evidence |-> [transaction_hash |-> "", counterparty_account |-> "",
                 window_start |-> "",
                 concentration_percent |-> ConcentrationPercent(top_10_total, total_supply),
                 holder_count |-> Len(holders)]]

RECURSIVE ConcentrationLoop(_, _)
ConcentrationLoop(s, k) ==
  IF k = 0 THEN << >>
  ELSE LET top_holders  == TopHolders(s, k)
           total_supply == SumBalance(LatestBalances(s, k))
           top_10_total == SumBalance(top_holders)
       IN  ConcentrationLoop(s, k - 1) \o
           ( IF top_holders = << >> \/ total_supply = 0 THEN << >>
             ELSE IF 100 * top_10_total >= RULE_ASSET_CONCENTRATION_PERCENT * total_supply
               THEN << ConcentrationResult(s, k, top_10_total, total_supply, top_holders) >>
               ELSE << >> )

\* AssetConcentrationRule.evaluate
ConcentrationEvaluate(s) == ConcentrationLoop(s, Len(s.assets))

EvaluateConcentration ==
  /\ ret' = [op |-> "asset_concentration", status |-> "ok",
             results |-> ConcentrationEvaluate(db)]
  /\ UNCHANGED <<db, now, client, sessions, limiter>>

----------------------------------------------------------------------------
(* The connector's rate limiter.  Times are in hundredths of a second.     *)

MAX_REQUESTS_PER_SECOND == 5

\* window = 1.0
Window == 100

\* the 0.01 added to sleep_for
Margin == 1

\* the fetches that call _throttle and the fetches that do not
ThrottledKinds ==
  {"account", "transactions", "operations", "transaction_detail"}

UnthrottledKinds == {"transaction_operations", "account_transactions"}

Kinds == ThrottledKinds \cup UnthrottledKinds

\* how long the threads of the process can be away between two steps
Delays == {50}

ThreadIds == {1, 2}

\* a thread of the process: pc is its position in _throttle, now the local
\* of that name, wake the time its sleep ends, status how its last fetch left
\* _throttle
IdleThread == [pc |-> "idle", now |-> 0, wake |-> 0, status |-> "none"]

\* clock is time.time(), dq the class attribute _request_times, calls the
\* network calls started less than a window ago
IdleLimiter ==
  [clock |-> 0, dq |-> << >>, calls |-> << >>,
   threads |-> [i \in ThreadIds |-> IdleThread]]

InThrottle == { i \in ThreadIds : limiter.threads[i].pc # "idle" }

Max(a, b) == IF a >= b THEN a ELSE b

\* the calls of log that started less than a window before t
Recent(log, t) == SelectSeq(log, LAMBDA c : t - Window < c.at)

\* fetch_transaction_operations and fetch_account_transactions: the call is
\* built and started at once
FetchUnthrottled(ids) ==
  /\ limiter.clock <= MaxClock
  /\ Len(limiter.calls) + Cardinality(InThrottle) < MaxFetches
  /\ \E i \in ids, kind \in UnthrottledKinds :
       /\ limiter.threads[i].pc = "idle"
       /\ limiter' = [limiter EXCEPT
            !.calls = Append(@, [at |-> limiter.clock, throttled |-> kind \in ThrottledKinds]),
            !.threads[i].status = "ok"]
  /\ UNCHANGED <<db, ret, now, client, sessions>>

\* a throttled fetch enters _throttle: now = time.time()
ThrottleEnter(ids) ==
  /\ limiter.clock <= MaxClock
  /\ Len(limiter.calls) + Cardinality(InThrottle) < MaxFetches
  /\ \E i \in ids, kind \in ThrottledKinds :
       /\ limiter.threads[i].pc = "idle"
       /\ limiter' = [limiter EXCEPT
            !.threads[i] = [pc |-> "prune", now |-> limiter.clock, wake |-> 0,
                            status |-> "none"]]
  /\ UNCHANGED <<db, ret, now, client, sessions>>

\* the test of the while loop: dq and now - dq[0] > window
PruneTest(ids) ==
  /\ \E i \in ids :
       LET th == limiter.threads[i]
       IN  /\ th.pc = "prune"
           /\ limiter' = [limiter EXCEPT !.threads[i].pc =
                IF limiter.dq # << >> /\ th.now - Head(limiter.dq) > Window
                  THEN "pop" ELSE "check"]
  /\ UNCHANGED <<db, ret, now, client, sessions>>

\* the body of the while loop: dq.popleft(), an IndexError on an empty deque
PrunePop(ids) ==
  /\ \E i \in ids :
       /\ limiter.threads[i].pc = "pop"
       /\ limiter' =
            IF limiter.dq = << >>
              THEN [limiter EXCEPT !.threads[i] = [IdleThread EXCEPT !.status = "error"]]
              ELSE [limiter EXCEPT !.dq = Tail(@), !.threads[i].pc = "prune"]
  /\ UNCHANGED <<db, ret, now, client, sessions>>

\* if len(dq) >= max_req
LengthCheck(ids) ==
  /\ \E i \in ids :
       /\ limiter.threads[i].pc = "check"
       /\ limiter' = [limiter EXCEPT !.threads[i].pc =
            IF Len(limiter.dq) >= MAX_REQUESTS_PER_SECOND THEN "head" ELSE "append"]
  /\ UNCHANGED <<db, ret, now, client, sessions>>

\* sleep_for = window - (now - dq[0]) + 0.01, an IndexError on an empty
\* deque; time.sleep(sleep_for) if it is positive
SleepFor(ids) ==
  /\ \E i \in ids :
       LET th == limiter.threads[i]
           sleep_for == Window - (th.now - Head(limiter.dq)) + Margin
       IN  /\ th.pc = "head"
           /\ limiter' =
                IF limiter.dq = << >>
                  THEN [limiter EXCEPT !.threads[i] = [IdleThread EXCEPT !.status = "error"]]
                ELSE IF sleep_for > 0
                  THEN [limiter EXCEPT !.threads[i].pc = "sleep",
                                       !.threads[i].wake = limiter.clock + sleep_for]
                ELSE [limiter EXCEPT !.threads[i].pc = "append"]
  /\ UNCHANGED <<db, ret, now, client, sessions>>

\* time.sleep returns, not before the time it was asked to sleep has passed
Wake(ids) ==
  /\ \E i \in ids :
       /\ limiter.threads[i].pc = "sleep"
       /\ limiter' = [limiter EXCEPT
            !.clock = Max(@, limiter.threads[i].wake),
            !.calls = Recent(@, Max(limiter.clock, limiter.threads[i].wake)),
            !.threads[i].pc = "append"]
  /\ UNCHANGED <<db, ret, now, client, sessions>>

\* dq.append(time.time()); _throttle returns and the fetch starts its call
AppendCall(ids) ==
  /\ \E i \in ids :
       /\ limiter.threads[i].pc = "append"
       /\ limiter' = [limiter EXCEPT
            !.dq = Append(@, limiter.clock),
            !.calls = Append(@, [at |-> limiter.clock, throttled |-> TRUE]),
            !.threads[i] = [IdleThread EXCEPT !.status = "ok"]]
  /\ UNCHANGED <<db, ret, now, client, sessions>>

\* time passes
Elapse ==
  /\ \E d \in Delays :
       /\ limiter.clock + d <= MaxClock
       /\ limiter' = [limiter EXCEPT !.clock = @ + d,
                                     !.calls = Recent(@, limiter.clock + d)]
  /\ UNCHANGED <<db, ret, now, client, sessions>>

----------------------------------------------------------------------------
(* Specifications                                                          *)

\* ret: the handler that ran last (op), how it ended (status), and what it
\* returned; for a stream cycle the counters, the cursor it read from the
\* checkpoint, the page a committed cycle processed, and whether an aborted
\* session had written anything
NoRet == [op |-> "none", status |-> "none", transactions_created |-> 0,
          operations_created |-> 0, cursor |-> NowToken, page |-> <<>>,
          dirty |-> FALSE]

Init ==
  /\ db = EmptyStore
  /\ ret = NoRet
  /\ now = 0
  /\ client = IdleClient
  /\ sessions = [i \in SessionIds |-> IdleSession]
  /\ limiter = IdleLimiter

\* the two stream cycles
Next ==
  \/ IngestLatestTransactions
  \/ IngestOperationsStream

Spec == Init /\ [][Next]_vars

\* account ingest, the rule engine and the clock
NextRules ==
  \/ IngestAccount
  \/ RunEngine
  \/ Tick

SpecRules == Init /\ [][NextRules]_vars

\* the rule engine under every severity setting of its flag-creating rule
NextFlags ==
  \/ IngestAccount
  \/ RunEngineSeverities
  \/ Tick

SpecFlags == Init /\ [][NextFlags]_vars

\* the Large Transfer rule over the stores of its inputs
InitTransfers ==
  /\ \E watched \in SUBSET {1, 2}, successful \in BOOLEAN,
        ops \in UNION { TransferOpSeqs(n) : n \in 0..MaxTransferOps } :
       db = TransferStore(watched, successful, ops)
  /\ ret = NoRet
  /\ now \in {2, 3}
  /\ client = IdleClient
  /\ sessions = [i \in SessionIds |-> IdleSession]
  /\ limiter = IdleLimiter

NextTransfers == EvaluateLargeTransfer

SpecTransfers == InitTransfers /\ [][NextTransfers]_vars

\* the Dormant Reactivation rule over the stores of its inputs
InitDormant ==
  /\ \E watched \in SUBSET {1, 2}, seen \in [{1, 2} -> DormantLastSeens],
        successful \in BOOLEAN,
        ops \in UNION { DormantOpSeqs(n) : n \in 0..MaxDormantOps } :
       db = DormantStore(watched, seen, successful, ops)
  /\ ret = NoRet
  /\ now = DormantNow
  /\ client = IdleClient
  /\ sessions = [i \in SessionIds |-> IdleSession]
  /\ limiter = IdleLimiter

NextDormant == EvaluateDormant

SpecDormant == InitDormant /\ [][NextDormant]_vars

\* the operations stream, the watchlist and the New Counterparty rule
NextCounterparty ==
  \/ CreateWatchlist
  \/ AddAccountToWatchlist
  \/ IngestOperationsStream
  \/ EvaluateNewCounterparty
  \/ Tick

SpecCounterparty == Init /\ [][NextCounterparty]_vars

\* account ingest for every detail of the source, over stores the
\* operations cycle has written accounts and assets to
NextAccount ==
  \/ IngestAccountAny
  \/ (Len(db.ops) < MaxAccountOps /\ IngestOperationsStream)

SpecAccount == Init /\ [][NextAccount]_vars

\* the stream cycles over operation records of every type
NextOps == IngestOtherOperations

SpecOps == Init /\ [][NextOps]_vars

\* the ingestion paths that sight accounts, and the clock
NextSeen ==
  \/ IngestAccount
  \/ (Len(db.txs) + Len(db.ops) < MaxSeenRows /\ IngestLatestTransactions)
  \/ (Len(db.txs) + Len(db.ops) < MaxSeenRows /\ IngestOperationsStream)
  \/ Tick

SpecSeen == Init /\ [][NextSeen]_vars

\* the Rapid Outflow rule over the stores of its inputs
InitOutflow ==
  /\ \E watched \in SUBSET {1, 2},
        recent \in [{1, 2} -> {0, RULE_RAPID_OUTFLOW_TX_COUNT - 1,
                               RULE_RAPID_OUTFLOW_TX_COUNT, MaxOutflowOps}],
        old \in {0, 2}, funded \in {0, 1}, failed \in {0, 1} :
       db = OutflowStore(watched, OutflowOps(recent, old, funded, failed))
  /\ ret = NoRet
  /\ now = OutflowNow
  /\ client = IdleClient
  /\ sessions = [i \in SessionIds |-> IdleSession]
  /\ limiter = IdleLimiter

NextOutflow == EvaluateOutflow

SpecOutflow == InitOutflow /\ [][NextOutflow]_vars

\* scheduled engine runs over the stores of the Rapid Outflow rule
NextOutflowRuns ==
  \/ RunOutflowEngine
  \/ OutflowInterval

SpecOutflowRuns == InitOutflow /\ [][NextOutflowRuns]_vars

\* the Asset Concentration rule over the stores of its inputs
InitConcentration ==
  /\ \E big \in {0, 3, 10}, n \in {0, 9, 12, MaxHolders}, small \in {0, 1},
        old \in BOOLEAN, tied \in BOOLEAN, second \in BOOLEAN :
       db = ConcentrationStore(n, ConcentrationBalances(big, n, small, old, tied, second))
  /\ ret = NoRet
  /\ now = ConcentrationNow
  /\ client = IdleClient
  /\ sessions = [i \in SessionIds |-> IdleSession]
  /\ limiter = IdleLimiter

NextConcentration == EvaluateConcentration

SpecConcentration == InitConcentration /\ [][NextConcentration]_vars

\* one thread issuing fetches of every kind
NextThrottle ==
  \/ FetchUnthrottled({1})
  \/ ThrottleEnter({1})
  \/ PruneTest({1})
  \/ PrunePop({1})
  \/ LengthCheck({1})
  \/ SleepFor({1})
  \/ Wake({1})
  \/ AppendCall({1})
  \/ Elapse

SpecThrottle == Init /\ [][NextThrottle]_vars

\* the threads of one process issuing throttled fetches
NextThreads ==
  \/ ThrottleEnter(ThreadIds)
  \/ PruneTest(ThreadIds)
  \/ PrunePop(ThreadIds)
  \/ LengthCheck(ThreadIds)
  \/ SleepFor(ThreadIds)
  \/ Wake(ThreadIds)
  \/ AppendCall(ThreadIds)
  \/ Elapse

SpecThreads == Init /\ [][NextThreads]_vars

\* account ingest and rule-engine runs with failing rules
NextEngine ==
  \/ IngestAccount
  \/ RunEngineFailing

SpecEngine == Init /\ [][NextEngine]_vars

\* every writer of accounts: the ingestion paths, the rule engine and the
\* manual flag endpoint
NextRisk ==
  \/ IngestAccount
  \/ (Len(db.txs) + Len(db.ops) < MaxRiskRows /\ IngestLatestTransactions)
  \/ (Len(db.txs) + Len(db.ops) < MaxRiskRows /\ IngestOperationsStream)
  \/ CreateWatchlist
  \/ AddAccountToWatchlist
  \/ IngestWatchlistAccounts
  \/ RunEngineUpTo(MaxRiskResults)
  \/ CreateManualFlag

SpecRisk == Init /\ [][NextRisk]_vars

\* the connector alone
NextClient ==
  \/ ClientCall
  \/ ClientAttempt
  \/ ClientReturn

SpecClient == Init /\ [][NextClient]_vars

\* overlapping operations cycles
NextConc ==
  \/ ConcBegin
  \/ ConcSelect
  \/ ConcWrite
  \/ ConcDeadlock
  \/ ConcCommit

SpecConc == Init /\ [][NextConc]_vars

\* overlapping operations cycles that fetch after the stored cursor
NextOverlap ==
  \/ OverlapBegin
  \/ ConcSelect
  \/ ConcWrite
  \/ ConcDeadlock
  \/ ConcCommit

SpecOverlap == Init /\ [][NextOverlap]_vars

\* overlapping flag creations on one account
InitFlagRace ==
  /\ \E score \in RaceScores : db = RaceStore(score)
  /\ ret = NoRet
  /\ now = 0
  /\ client = IdleClient
  /\ sessions = [i \in SessionIds |-> IdleSession]
  /\ limiter = IdleLimiter

NextFlagRace ==
  \/ FlagLoadAccount
  \/ FlagCommit

\* watchlists, their refresh and the clock
NextWatchlist ==
  \/ CreateWatchlist
  \/ AddAccountToWatchlistOf(WatchedAddresses)
  \/ IngestWatchlistAccountsUpTo(MaxWatchBalances)
  \/ Tick

SpecWatchlist == Init /\ [][NextWatchlist]_vars

SpecFlagRace == InitFlagRace /\ [][NextFlagRace]_vars

\* overlapping engine runs
NextEngineRace ==
  \/ EngineDedupCheck
  \/ EngineCreate

SpecEngineRace == InitFlagRace /\ [][NextEngineRace]_vars

----------------------------------------------------------------------------
(* Properties of the ingestion coordinator                                 *)

\* the source kept its contract for this page: ascending tokens, all
\* strictly after the cursor the cycle asked with
PageOrdered(page, cursor) ==
  /\ \A i \in DOMAIN page : page[i].paging_token > cursor
  /\ \A i \in 1..(Len(page) - 1) : page[i].paging_token < page[i + 1].paging_token

CursorOf(s, stream) == s.ckpt[stream].last_paging_token

\* C1: over cycles run one after another on a stream whose source answers
\* with records in ascending token order strictly after the cursor, the
\* stored last_paging_token never moves behind its previous value, a cycle
\* that aborts leaves it as it was, and a cycle never touches the other
\* stream's checkpoint.
C1_CheckpointMonotonic ==
  [][\A st \in Streams :
       /\ (ret'.op = st /\ ret'.status = "ok"
             /\ PageOrdered(ret'.page, CursorOf(db, st)))
            => CursorOf(db', st) >= CursorOf(db, st)
       /\ (ret'.op \in Streams /\ ret'.status = "error")
            => db'.ckpt[st] = db.ckpt[st]
       /\ (ret'.op \in Streams /\ ret'.op # st)
            => db'.ckpt[st] = db.ckpt[st]]_vars

\* a committed non-empty cycle that started from an already advanced cursor
\* and moved it further
C1_Witness ==
  /\ ret.op = "operations_global" /\ ret.status = "ok"
  /\ ret.cursor # NowToken
  /\ ret.page # <<>>
  /\ PageOrdered(ret.page, ret.cursor)
  /\ CursorOf(db, ret.op) > ret.cursor

\* C2: a stream cycle that raises after it already upserted records leaves
\* the committed store exactly as it was: none of its account, asset,
\* transaction, operation or edge writes is present and the checkpoint rows
\* are unchanged.
C2_AbortRollsBack ==
  [][(ret'.op \in Streams /\ ret'.status = "error") => db' = db]_vars

\* an operations cycle aborted while its session held uncommitted writes,
\* in a store that earlier cycles had filled
C2_Witness ==
  /\ ret.op = "operations_global" /\ ret.status = "error" /\ ret.dirty
  /\ db.ops # <<>>

\* C3: after an operations cycle that commits, every record of its page at
\* or before the stored cursor is in the operations table.
C3_CheckpointNotPastUnstored ==
  (ret.op = "operations_global" /\ ret.status = "ok") =>
    \A i \in DOMAIN ret.page :
      ret.page[i].paging_token <= CursorOf(db, "operations_global")
        => \E r \in Rows(db.ops) : r.op_id = ret.page[i].id

\* C4: a transaction hash or an operation id is stored in at most one row
\* whatever is ingested again, and a cycle counts in transactions_created /
\* operations_created exactly the rows it added, so a record that was
\* already stored reports created = false.
C4_Idempotent ==
  [][(ret'.op \in Streams /\ ret'.status = "ok") =>
       /\ \A i, j \in DOMAIN db'.txs :
            db'.txs[i].tx_hash = db'.txs[j].tx_hash => i = j
       /\ \A i, j \in DOMAIN db'.ops :
            db'.ops[i].op_id = db'.ops[j].op_id => i = j
       /\ ret'.transactions_created = Len(db'.txs) - Len(db.txs)
       /\ ret'.operations_created = Len(db'.ops) - Len(db.ops)]_vars

\* a committed operations cycle whose page was already stored: it created
\* nothing
C4_Witness ==
  /\ ret.op = "operations_global" /\ ret.status = "ok"
  /\ ret.page # <<>>
  /\ ret.operations_created = 0 /\ ret.transactions_created = 0
  /\ \A i \in DOMAIN ret.page : \E r \in Rows(db.ops) : r.op_id = ret.page[i].id
  /\ db.replayed

RECURSIVE SumAmount(_)
SumAmount(t) == IF t = <<>> THEN 0 ELSE Head(t).amount + SumAmount(Tail(t))

\* the rows of table t that carry the edge key (f, t, a)
PaymentsOn(t, f, to, a) ==
  SelectSeq(t, LAMBDA r : r.type \in PaymentTypes /\ r.from_account_id = f
                           /\ r.to_account_id = to /\ r.asset_id = a)

EdgesOn(t, f, to, a) ==
  SelectSeq(t, LAMBDA r : r.from_account_id = f /\ r.to_account_id = to
                           /\ r.asset_id = a)

\* C5: when n distinct payment-class operations from A to B in one asset
\* (the native asset included) have been ingested, each once, there is
\* exactly one edge row for (A, B, asset), with tx_count = n and
\* total_amount = the sum of their amounts.
C5_EdgeAccumulates ==
  ~db.replayed =>
    \A f, to \in DOMAIN db.accounts : \A a \in DOMAIN db.assets \cup {NULL} :
      LET paid == PaymentsOn(db.ops, f, to, a)
          edge == EdgesOn(db.edges, f, to, a)
      IN  paid # <<>> =>
            /\ Len(edge) = 1
            /\ edge[1].tx_count = Len(paid)
            /\ edge[1].total_amount = SumAmount(paid)

\* C11: a stream cycle that commits an empty page leaves both checkpoint
\* rows (last_paging_token, last_ledger and the error columns) exactly as
\* they were and returns (0, 0).
C11_EmptyPageKeepsCheckpoint ==
  [][(ret'.op \in Streams /\ ret'.status = "ok" /\ ret'.page = <<>>) =>
       /\ db'.ckpt = db.ckpt
       /\ ret'.transactions_created = 0
       /\ ret'.operations_created = 0]_vars

\* an empty page came after earlier cycles had advanced the cursor and the
\* ledger of the transactions stream
C11_Witness ==
  /\ ret.op = "transactions_global" /\ ret.status = "ok" /\ ret.page = <<>>
  /\ ret.cursor # NowToken
  /\ db.ckpt["transactions_global"].last_paging_token = ret.cursor
  /\ db.ckpt["transactions_global"].last_ledger # NULL

\* C14: a stream cycle that fails has its failure recorded on the stream's
\* checkpoint row: error_count is one higher and last_error is set, while
\* last_paging_token and last_ledger stay as they were.
C14_ErrorRecorded ==
  [][(ret'.op \in Streams /\ ret'.status = "error") =>
       LET before == db.ckpt[ret'.op]
           after  == db'.ckpt[ret'.op]
       IN  /\ after.error_count = before.error_count + 1
           /\ after.last_error # NULL
           /\ after.last_paging_token = before.last_paging_token
           /\ after.last_ledger = before.last_ledger]_vars

----------------------------------------------------------------------------
(* Properties of overlapping cycles                                        *)

\* C12: when overlapping cycles reference the same account address or the
\* same asset (code, issuer) that is not yet stored, the store holds at most
\* one row per key and no cycle ends with an error.
C12_ConcurrentGetOrCreate ==
  /\ \A i, j \in DOMAIN db.accounts :
       db.accounts[i].address = db.accounts[j].address => i = j
  /\ \A i, j \in DOMAIN db.assets :
       (db.assets[i].asset_code = db.assets[j].asset_code
          /\ db.assets[i].asset_issuer = db.assets[j].asset_issuer) => i = j
  /\ \A i \in SessionIds : sessions[i].status # "error"

\* the counterparty_edges rows of the key of record op, in store s with
\* the account and asset ids of store ids
EdgeRows(s, ids, op) ==
  EdgesOn(s.edges, AccountIdOf(ids, op.from), AccountIdOf(ids, op.to),
          IF op.asset_type # "native"
            THEN AssetIdOf(ids, op.asset_code, op.asset_issuer) ELSE NULL)

RECURSIVE SumTotal(_)
SumTotal(t) == IF t = <<>> THEN 0 ELSE Head(t).total_amount + SumTotal(Tail(t))

\* the edge writes of a log on the key of record op
EdgeWrites(log, op) ==
  SelectSeq(log, LAMBDA e : e.w = "edge" /\ EdgeKey(e.op) = EdgeKey(op))

RECURSIVE SumWrites(_)
SumWrites(log) == IF log = <<>> THEN 0 ELSE Head(log).op.amount + SumWrites(Tail(log))

\* C13: when a cycle that accumulated on an edge key commits after it ran
\* while another cycle on the same key was in flight, the key has exactly
\* one edge row, and its tx_count and total_amount have grown by exactly the
\* cycle's own number of payments and their amounts: with two such writers
\* the edge grows by 2 and by a1 + a2 under every interleaving.
C13_EdgeNoLostUpdate ==
  [][\A i \in SessionIds :
       (sessions[i].pc = "commit" /\ sessions'[i].pc = "idle") =>
         \A n \in DOMAIN sessions[i].log :
           LET e == sessions[i].log[n]
               before == EdgeRows(db, db', e.op)
               after  == EdgeRows(db', db', e.op)
               mine   == EdgeWrites(sessions[i].log, e.op)
           IN  (e.w = "edge" /\ EdgeKey(e.op) \in sessions[i].peers) =>
                 /\ Len(after) = 1
                 /\ SumCount(after) = SumCount(before) + Len(mine)
                 /\ SumTotal(after) = SumTotal(before) + SumWrites(mine)]_vars

\* the same for the keys of issued assets only
EdgeNoLostUpdateIssued ==
  [][\A i \in SessionIds :
       (sessions[i].pc = "commit" /\ sessions'[i].pc = "idle") =>
         \A n \in DOMAIN sessions[i].log :
           LET e == sessions[i].log[n]
               before == EdgeRows(db, db', e.op)
               after  == EdgeRows(db', db', e.op)
               mine   == EdgeWrites(sessions[i].log, e.op)
           IN  (e.w = "edge" /\ EdgeKey(e.op) \in sessions[i].peers
                  /\ e.op.asset_type # "native") =>
                 /\ Len(after) = 1
                 /\ SumCount(after) = SumCount(before) + Len(mine)
                 /\ SumTotal(after) = SumTotal(before) + SumWrites(mine)]_vars

\* two cycles on one issued-asset key overlapped and both committed
IssuedOverlapSeen ==
  \E i \in SessionIds :
    /\ sessions[i].pc = "commit"
    /\ \E n \in DOMAIN sessions[i].log :
         LET e == sessions[i].log[n]
         IN  /\ e.w = "edge" /\ e.op.asset_type # "native"
             /\ EdgeKey(e.op) \in sessions[i].peers
             /\ SumCount(EdgeRows(db, db, e.op)) >= 2

----------------------------------------------------------------------------
(* Properties of the rule engine                                           *)

\* the evidence field that tells two findings of one rule apart
Discriminant(rule_name, evidence) ==
  CASE rule_name = "large_transfer" -> evidence.transaction_hash
    [] rule_name = "new_counterparty" -> evidence.counterparty_account
    [] rule_name = "rapid_outflow" -> evidence.window_start
    [] rule_name = "asset_concentration" -> evidence.concentration_percent
    [] OTHER -> ""

\* the creation times of the Alerts and Flags stored for the finding of
\* result: same rule, account, asset and discriminant
AlertsFor(s, result) ==
  SelectSeq(s.alerts, LAMBDA a :
    /\ a.alert_type = result.rule_name
    /\ a.account_id = result.account_id
    /\ a.asset_id = result.asset_id
    /\ Discriminant(a.alert_type, a.evidence)
         = Discriminant(result.rule_name, result.evidence))

FlagsFor(s, result) ==
  SelectSeq(s.flags, LAMBDA f :
    /\ f.flag_type = result.rule_name
    /\ f.account_id = result.account_id
    /\ Discriminant(f.flag_type, f.evidence)
         = Discriminant(result.rule_name, result.evidence))

RecordsFor(s, result) == AlertsFor(s, result) \o FlagsFor(s, result)

AgesFor(s, result, t) ==
  { t - RecordsFor(s, result)[i].created_at : i \in DOMAIN RecordsFor(s, result) }

\* C6: in a persisting run of the rule engine, a finding whose stored record
\* is younger than the dedup window adds no record; a finding whose stored
\* records are all older than the window adds exactly one; a finding with no
\* stored record adds exactly one, however often it fires in the run.
C6_DedupWindow ==
  [][(ret'.op = "rule_engine" /\ ret'.status = "ok" /\ ~ret'.dry_run /\ now' = now) =>
       \A i \in DOMAIN ret'.results :
         LET r == ret'.results[i]
             ages == AgesFor(db, r, now)
         IN  /\ (\E a \in ages : a < ALERT_DEDUP_WINDOW_HOURS)
                  => Len(RecordsFor(db', r)) = Len(RecordsFor(db, r))
             /\ (ages # {} /\ \A a \in ages : a > ALERT_DEDUP_WINDOW_HOURS)
                  => Len(RecordsFor(db', r)) = Len(RecordsFor(db, r)) + 1
             /\ ages = {} => Len(RecordsFor(db', r)) = 1]_vars

\* a run in which a finding fired twice after the window of its first
\* record had elapsed: one new record, one duplicate skipped, and the two
\* records of the finding lie more than the window apart
C6_Witness ==
  /\ ret.op = "rule_engine" /\ ret.status = "ok" /\ ~ret.dry_run
  /\ ret.duplicates_skipped >= 1
  /\ \E i \in DOMAIN ret.results :
       LET recs == RecordsFor(db, ret.results[i])
       IN  /\ Len(recs) = 2
           /\ recs[2].created_at = now
           /\ recs[2].created_at - recs[1].created_at > ALERT_DEDUP_WINDOW_HOURS

\* C7: every account's risk_score lies in [0, 100].
C7_RiskInRange ==
  \A i \in DOMAIN db.accounts :
    db.accounts[i].risk_score >= 0 /\ db.accounts[i].risk_score <= 100

RECURSIVE SumScores(_)
SumScores(flags) ==
  IF flags = <<>> THEN 0
  ELSE SeverityScore(Head(flags).severity) + SumScores(Tail(flags))

\* an account at 100 whose flags add up to more than 100, one of them
\* created by the rule engine and one by hand
C7_Witness ==
  \E i \in DOMAIN db.accounts :
    LET mine == SelectSeq(db.flags, LAMBDA f : f.account_id = i)
    IN  /\ db.accounts[i].risk_score = 100
        /\ SumScores(mine) > 100
        /\ \E f \in Rows(mine) : f.flag_type = "dormant_reactivation"
        /\ \E f \in Rows(mine) : f.flag_type \in ManualFlagTypes

IngestionOps ==
  {"transactions_global", "operations_global", "ingest_account",
   "ingest_watchlist_accounts"}

C15_RuleErrorIsolated ==
  [][(ret'.op = "rule_engine" /\ ret'.raised.rule # "none") =>
       /\ ret'.status = "ok"
       /\ ret'.failed = {ret'.raised.rule}
       /\ \A i \in DOMAIN ret'.results : ret'.results[i].rule_name # ret'.raised.rule
       /\ ~ret'.dry_run =>
            \A i \in DOMAIN ret'.results : RecordsFor(db', ret'.results[i]) # <<>>
       /\ \A k \in (Len(db.alerts) + 1)..Len(db'.alerts) :
            db'.alerts[k].alert_type # ret'.raised.rule
       /\ \A k \in (Len(db.flags) + 1)..Len(db'.flags) :
            db'.flags[k].flag_type # ret'.raised.rule]_vars

\* the same for an error raised by the rule's own code, which leaves the
\* session usable
RuleErrorIsolatedPython ==
  [][(ret'.op = "rule_engine" /\ ret'.raised.kind = "python") =>
       /\ ret'.status = "ok"
       /\ ret'.failed = {ret'.raised.rule}
       /\ \A i \in DOMAIN ret'.results : ret'.results[i].rule_name # ret'.raised.rule
       /\ ~ret'.dry_run =>
            \A i \in DOMAIN ret'.results : RecordsFor(db', ret'.results[i]) # <<>>
       /\ \A k \in (Len(db.alerts) + 1)..Len(db'.alerts) :
            db'.alerts[k].alert_type # ret'.raised.rule
       /\ \A k \in (Len(db.flags) + 1)..Len(db'.flags) :
            db'.flags[k].flag_type # ret'.raised.rule]_vars

\* a persisting run in which a rule's own code raised and a finding of
\* another rule was stored
PythonErrorSeen ==
  /\ ret.op = "rule_engine" /\ ret.raised.kind = "python" /\ ~ret.dry_run
  /\ ret.alerts_created + ret.flags_created >= 1

\* C16: a rule-engine run in dry-run mode leaves the store unchanged (no
\* Alert, no Flag, no risk_score change) and reports alerts_created = 0 and
\* flags_created = 0, whatever findings fire.
C16_DryRunLeavesStore ==
  [][(ret'.op = "rule_engine" /\ ret'.dry_run /\ now' = now) =>
       /\ db' = db
       /\ ret'.alerts_created = 0
       /\ ret'.flags_created = 0]_vars

\* a dry run over a finding of an alert rule and a finding of the
\* flag-creating rule, neither of them a duplicate: a persisting run would
\* have stored both
C16_Witness ==
  /\ ret.op = "rule_engine" /\ ret.status = "ok" /\ ret.dry_run
  /\ \E i, j \in DOMAIN ret.results :
       /\ ret.results[i].rule_name \in AlertRules
       /\ ret.results[j].rule_name = "dormant_reactivation"
       /\ ~IsDuplicate(db, ret.results[i], now)
       /\ ~IsDuplicate(db, ret.results[j], now)
       /\ db.accounts[ret.results[j].account_id].risk_score < 100

\* the findings of a persisting run that are persisted: those with no
\* stored record inside the dedup window when the run starts
Persisted(s, results, t) ==
  { results[i] : i \in { k \in DOMAIN results : ~IsDuplicate(s, results[k], t) } }

\* the amount the spec gives for a severity
Increment(severity) ==
  CASE severity = "low" -> 10
    [] severity = "medium" -> 25
    [] severity = "high" -> 50
    [] severity = "critical" -> 75

\* the first dormant_reactivation finding of results on account a that is
\* persisted (a later one of the same run is its duplicate)
FirstFlagged(s, results, t, a) ==
  LET ks == { k \in DOMAIN results :
                /\ results[k].rule_name = "dormant_reactivation"
                /\ results[k].account_id = a
                /\ ~IsDuplicate(s, results[k], t) }
  IN  IF ks = {} THEN 0 ELSE CHOOSE k \in ks : \A m \in ks : k <= m

\* C17: in a persisting run, each persisted finding of large_transfer,
\* new_counterparty, rapid_outflow or asset_concentration adds exactly one
\* Alert and no Flag; each persisted dormant_reactivation finding adds
\* exactly one Flag and no Alert and sets the risk_score of its account to
\* min(100, old + d), d = 10, 25, 50, 75 for low, medium, high, critical;
\* nothing else is added and no other risk_score changes.
C17_AlertOrFlag ==
  [][(ret'.op = "rule_engine" /\ ret'.status = "ok" /\ ~ret'.dry_run /\ now' = now) =>
       LET persisted == Persisted(db, ret'.results, now)
           alert_findings == { r \in persisted : r.rule_name \in AlertRules }
           flag_findings == { r \in persisted : r.rule_name = "dormant_reactivation" }
       IN  /\ \A r \in alert_findings :
                /\ Len(AlertsFor(db', r)) = Len(AlertsFor(db, r)) + 1
                /\ Len(FlagsFor(db', r)) = Len(FlagsFor(db, r))
           /\ \A r \in flag_findings :
                /\ Len(FlagsFor(db', r)) = Len(FlagsFor(db, r)) + 1
                /\ Len(AlertsFor(db', r)) = Len(AlertsFor(db, r))
           /\ Len(db'.alerts) = Len(db.alerts) + Cardinality(alert_findings)
           /\ Len(db'.flags) = Len(db.flags) + Cardinality(flag_findings)
           /\ \A a \in DOMAIN db.accounts :
                LET k == FirstFlagged(db, ret'.results, now, a)
                    old == db.accounts[a].risk_score
                IN  db'.accounts[a].risk_score =
                      IF k = 0 THEN old
                      ELSE Min(100, old + Increment(ret'.results[k].severity))]_vars

\* a persisting run that stored an Alert and a Flag, the Flag on an account
\* whose risk_score was clamped at 100
C17_Witness ==
  /\ ret.op = "rule_engine" /\ ret.status = "ok" /\ ~ret.dry_run
  /\ ret.alerts_created = 1 /\ ret.flags_created = 1
  /\ Len(db.alerts) >= 1 /\ Len(db.flags) >= 1
  /\ db.alerts[Len(db.alerts)].created_at = now
  /\ db.flags[Len(db.flags)].created_at = now
  /\ db.accounts[db.flags[Len(db.flags)].account_id].risk_score = 100

\* a persisting run that stored a Flag of severity medium on an account of
\* risk_score 0
C17_MediumSeen ==
  /\ ret.op = "rule_engine" /\ ret.status = "ok" /\ ~ret.dry_run
  /\ ret.flags_created = 1
  /\ \E i \in DOMAIN db.flags :
       /\ db.flags[i].severity = "medium" /\ db.flags[i].created_at = now
       /\ db.accounts[db.flags[i].account_id].risk_score = 25

----------------------------------------------------------------------------
(* Referential integrity of the committed store                            *)

\* the record of the source an operation row was written from
RecordOf(o) == CHOOSE r \in Rows(OpLedger) : r.id = o.op_id

\* C25: in every committed state every stored operation references a
\* stored transaction, the parent of its record; every non-null from
\* account, to account and asset of an operation is a stored row; the
\* source account of every transaction is stored; both endpoints of every
\* counterparty edge are stored accounts.  An operation whose parent
\* transaction is not stored is therefore never written.
C25_ReferentialIntegrity ==
  /\ \A o \in Rows(db.ops) :
       /\ o.tx_id \in DOMAIN db.txs
       /\ db.txs[o.tx_id].tx_hash = RecordOf(o).transaction_hash
       /\ o.from_account_id # NULL => o.from_account_id \in DOMAIN db.accounts
       /\ o.to_account_id # NULL => o.to_account_id \in DOMAIN db.accounts
       /\ o.asset_id # NULL => o.asset_id \in DOMAIN db.assets
  /\ \A t \in Rows(db.txs) : t.source_account_id \in DOMAIN db.accounts
  /\ \A e \in Rows(db.edges) :
       /\ e.from_account_id \in DOMAIN db.accounts
       /\ e.to_account_id \in DOMAIN db.accounts

\* a committed operations cycle that stored an operation with its accounts,
\* asset and edge, and skipped the other record of its page, whose
\* transaction could not be fetched and is not stored
C25_Witness ==
  /\ ret.op = "operations_global" /\ ret.status = "ok"
  /\ \E r \in Rows(ret.page) :
       /\ TxIdOf(db, r.transaction_hash) = NULL
       /\ \A o \in Rows(db.ops) : o.op_id # r.id
  /\ \E o \in Rows(db.ops) : o.asset_id # NULL /\ o.from_account_id # NULL
  /\ db.edges # << >>

----------------------------------------------------------------------------
(* Properties of account ingest                                            *)

\* a step of ingest_account that returned
IngestReturned == ret'.op = "ingest_account" /\ ret'.status = "ok" /\ db' # db

\* the (code, issuer) pairs of the non-native entries of a detail
CreditKeys(account_data) ==
  { << b.asset_code, b.asset_issuer >> :
      b \in { e \in Rows(account_data) : e.asset_type # "native" } }

NativeCount(account_data) ==
  Cardinality({ k \in DOMAIN account_data : account_data[k].asset_type = "native" })

\* C27: ingest_account returns balances_created equal to the number of
\* balance entries of the fetched account and assets_created equal to the
\* number of non-native (code, issuer) pairs among them that were not stored
\* before; a native balance makes one snapshot and no Asset row; a newly
\* created account has risk_score 0; the call appends its snapshots, one
\* per entry, after the stored snapshots, which it leaves as they were.
C27_IngestAccountCounts ==
  [][ IngestReturned =>
        LET data == ret'.account_data
            n    == Len(db.balances)
        IN  /\ ret'.balances_created = Len(data)
            /\ ret'.assets_created =
                 Cardinality({ key \in CreditKeys(data) : AssetIdOf(db, key[1], key[2]) = NULL })
            /\ Len(db'.assets) = Len(db.assets) + ret'.assets_created
            /\ \A a \in Rows(db'.assets) : a.asset_type # "native"
            /\ Len(db'.balances) = n + Len(data)
            /\ SubSeq(db'.balances, 1, n) = db.balances
            /\ \A k \in DOMAIN data :
                 /\ db'.balances[n + k].account_id = ret'.account_id
                 /\ db'.balances[n + k].balance = data[k].balance
                 /\ db'.balances[n + k].asset_id =
                      IF data[k].asset_type = "native" THEN NULL
                      ELSE AssetIdOf(db', data[k].asset_code, data[k].asset_issuer)
            /\ AccountIdOf(db, ret'.address) = NULL =>
                 db'.accounts[ret'.account_id].risk_score = 0 ]_vars

\* a second ingest of an account: two trustlines, one of an asset stored
\* before, after the snapshot of an earlier call
C27_Witness ==
  /\ ret.op = "ingest_account" /\ ret.status = "ok"
  /\ Len(ret.account_data) = 2 /\ NativeCount(ret.account_data) = 0
  /\ ret.balances_created = 2 /\ ret.assets_created = 1
  /\ Len(db.balances) = 3
  /\ db.balances[1].asset_id = NULL

\* a first ingest of an account with a native balance only
NativeOnlySeen ==
  /\ ret.op = "ingest_account" /\ ret.status = "ok"
  /\ ret.account_data = << NativeEntry >>
  /\ ret.balances_created = 1 /\ ret.assets_created = 0
  /\ db.assets = << >> /\ Len(db.balances) = 1 /\ Len(db.accounts) = 1
  /\ db.accounts[1].risk_score = 0

\* C28: ingest_account for an address that is already stored returns the
\* account of the stored row and adds no account row, and an entry of a
\* (code, issuer) that is already stored uses the stored asset row and adds
\* no row of that pair.
C28_NoSecondRow ==
  [][ IngestReturned =>
        /\ AccountIdOf(db, ret'.address) # NULL =>
             /\ ret'.account_id = AccountIdOf(db, ret'.address)
             /\ Len(db'.accounts) = Len(db.accounts)
        /\ \A i, j \in DOMAIN db'.accounts :
             db'.accounts[i].address = db'.accounts[j].address => i = j
        /\ \A key \in CreditKeys(ret'.account_data) :
             AssetIdOf(db, key[1], key[2]) # NULL =>
               /\ AssetIdOf(db', key[1], key[2]) = AssetIdOf(db, key[1], key[2])
               /\ Cardinality({ i \in DOMAIN db'.assets :
                                  /\ db'.assets[i].asset_code = key[1]
                                  /\ db'.assets[i].asset_issuer = key[2] }) = 1
               /\ \A k \in DOMAIN ret'.account_data :
                    << ret'.account_data[k].asset_code,
                       ret'.account_data[k].asset_issuer >> = key =>
                      db'.balances[Len(db.balances) + k].asset_id =
                        AssetIdOf(db, key[1], key[2]) ]_vars

\* an ingest of an account and of a trustline asset that an operations
\* cycle had stored before: the account has the first id, the receiver of
\* the payment the second, and no asset was created
C28_Witness ==
  /\ ret.op = "ingest_account" /\ ret.status = "ok"
  /\ ret.account_id = 1 /\ Len(db.accounts) = 2
  /\ \E o \in Rows(db.ops) : o.from_account_id = 1 /\ o.asset_id = 1
  /\ CreditKeys(ret.account_data) # {} /\ ret.assets_created = 0
  /\ Len(db.assets) = 1

\* C29: when the source reports the account as absent ingest_account fails
\* with AccountNotFoundError, and with another error for every other
\* failure; whenever ingest_account fails the committed store is what it
\* was before the call.
C29_FailureLeavesStore ==
  [][ (ret'.op = "ingest_account" /\ ret'.status # "ok" /\ now' = now) =>
        /\ db' = db
        /\ ret'.status = "not_found" <=> ret'.fetched = "not_found"
        /\ ret'.account_id = NULL ]_vars

\* a call failed after it had upserted the account and a snapshot, and the
\* store holds no account, asset or snapshot
C29_Witness ==
  /\ ret.op = "ingest_account" /\ ret.status = "internal" /\ ret.fetched = "ok"
  /\ db.accounts = << >> /\ db.assets = << >> /\ db.balances = << >>

\* a call for an account the source does not have
NotFoundSeen ==
  /\ ret.op = "ingest_account" /\ ret.status = "not_found"
  /\ db.accounts = << >>

----------------------------------------------------------------------------
(* Properties of the transaction-stream cycle                              *)

\* a step of ingest_latest_transactions that committed
TxCycleCommitted == ret'.op = "transactions_global" /\ ret'.status = "ok"

\* the transactions of the page that the step stored
NewTransactions ==
  { r \in Rows(ret'.page) : TxIdOf(db, r.hash) = NULL /\ TxIdOf(db', r.hash) # NULL }

----------------------------------------------------------------------------
(* Properties of last_seen                                                 *)

\* the addresses a record of the source mentions
Mentioned(stream, r) ==
  IF stream = "transactions_global" THEN {r.source_account} ELSE {r.from, r.to}

\* the records of the page of a committed cycle whose row the cycle wrote
NewlyStored(stream, page, before, after) ==
  IF stream = "transactions_global"
    THEN { r \in Rows(page) : TxIdOf(before, r.hash) = NULL /\ TxIdOf(after, r.hash) # NULL }
    ELSE { r \in Rows(page) : /\ \A o \in Rows(before.ops) : o.op_id # r.id
                              /\ \E o \in Rows(after.ops) : o.op_id = r.id }

\* C26: every ingestion path that references an account sets its last_seen
\* to the time of the sighting: after a committed account ingest the
\* account, and after a committed stream cycle every account mentioned by a
\* record the cycle stored (source account, sender, receiver), has a
\* last_seen not older than the time of the call.
C26_LastSeenBumped ==
  [][ (now' = now /\ ret'.status = "ok") =>
        /\ ret'.op = "ingest_account" =>
             db'.accounts[AccountIdOf(db', ret'.address)].last_seen >= now
        /\ ret'.op \in Streams =>
             \A r \in NewlyStored(ret'.op, ret'.page, db, db') :
               \A address \in Mentioned(ret'.op, r) :
                 db'.accounts[AccountIdOf(db', address)].last_seen >= now ]_vars

\* the same for account ingest and for the accounts a cycle creates
LastSeenOnUpsert ==
  [][ (now' = now /\ ret'.status = "ok") =>
        /\ ret'.op = "ingest_account" =>
             db'.accounts[AccountIdOf(db', ret'.address)].last_seen = now
        /\ ret'.op \in Streams =>
             \A r \in NewlyStored(ret'.op, ret'.page, db, db') :
               \A address \in Mentioned(ret'.op, r) :
                 AccountIdOf(db, address) = NULL =>
                   db'.accounts[AccountIdOf(db', address)].last_seen = now ]_vars

\* an account a cycle had stored at an earlier time, before a row that
\* still carries that time, was ingested and carries the time of the ingest
ReingestedSeen ==
  /\ ret.op = "ingest_account" /\ ret.status = "ok"
  /\ db.accounts[AccountIdOf(db, ret.address)].last_seen = now
  /\ \E i \in DOMAIN db.accounts :
       AccountIdOf(db, ret.address) < i /\ db.accounts[i].last_seen < now

\* a cycle stored a record at a later time than the last_seen of an
\* account it mentions
StaleLastSeenSeen ==
  /\ ret.op \in Streams /\ ret.status = "ok" /\ ret.page # << >>
  /\ \E r \in Rows(ret.page) : \E address \in Mentioned(ret.op, r) :
       /\ AccountIdOf(db, address) # NULL
       /\ db.accounts[AccountIdOf(db, address)].last_seen < now

----------------------------------------------------------------------------
(* Properties of operation types                                           *)

\* a step of ingest_operations_stream that committed
OpsCycleCommitted == ret'.op = "operations_global" /\ ret'.status = "ok"

\* the records of the page whose operation row the step stored
NewOperations == NewlyStored("operations_global", ret'.page, db, db')

Unrecognized(r) == r.type \notin PaymentTypes \cup {"create_account"}

\* the row stored for a record
RowOf(s, r) == CHOOSE o \in Rows(s.ops) : o.op_id = r.id

\* the accounts a step added are the source accounts of the transactions it
\* added
OnlySourceAccountsAdded ==
  \A i \in DOMAIN db'.accounts : i \notin DOMAIN db.accounts =>
    \E j \in DOMAIN db'.txs : j \notin DOMAIN db.txs /\ db'.txs[j].source_account_id = i

\* C31: an operation record whose type is none of payment,
\* path_payment_strict_send, path_payment_strict_receive, create_account is
\* stored on first ingest and counted as created, with null from and to
\* account, null asset and null amount; a committed cycle over such records
\* only adds no asset and no edge, changes no edge, and adds no account but
\* the source accounts of the transactions it pulls in.
C31_UnrecognizedStored ==
  [][ OpsCycleCommitted =>
        /\ \A r \in NewOperations : Unrecognized(r) =>
             /\ RowOf(db', r).type = r.type
             /\ RowOf(db', r).from_account_id = NULL
             /\ RowOf(db', r).to_account_id = NULL
             /\ RowOf(db', r).asset_id = NULL
             /\ RowOf(db', r).amount = NULL
        /\ ret'.operations_created = Cardinality(NewOperations)
        /\ (\A r \in Rows(ret'.page) : Unrecognized(r)) =>
             /\ db'.assets = db.assets
             /\ db'.edges = db.edges
             /\ OnlySourceAccountsAdded ]_vars

\* a committed cycle stored a clawback and an offer: two rows with null
\* references, no asset, no edge, and the source account of their
\* transaction as the only account
C31_Witness ==
  /\ ret.op = "operations_global" /\ ret.status = "ok"
  /\ ret.operations_created = 2
  /\ Len(db.ops) = 2
  /\ db.ops[1].type = "clawback" /\ db.ops[2].type = "manage_sell_offer"
  /\ db.ops[1].from_account_id = NULL /\ db.ops[1].asset_id = NULL
  /\ db.ops[1].amount = NULL
  /\ db.assets = << >> /\ db.edges = << >>
  /\ Len(db.accounts) = 1 /\ db.accounts[1].address = "GA"

\* the edge counters of a store, by key
EdgeCounters(s) ==
  { << e.from_account_id, e.to_account_id, e.asset_id, e.tx_count, e.total_amount >> :
      e \in Rows(s.edges) }

\* C32: a counterparty edge is created or accumulated only by a
\* payment-class operation that has a sender and a receiver: a committed
\* cycle whose page has no payment-class record leaves the edges as they
\* were, and a create_account record it stores has the funder and the new
\* account resolved to stored rows.
C32_EdgesFromPaymentsOnly ==
  [][ OpsCycleCommitted =>
        /\ (\A r \in Rows(ret'.page) : r.type \notin PaymentTypes) =>
             db'.edges = db.edges
        /\ \A i \in DOMAIN db'.edges : i \notin DOMAIN db.edges =>
             \E r \in Rows(ret'.page) :
               /\ r.type \in PaymentTypes
               /\ db'.edges[i].from_account_id = AccountIdOf(db', r.from)
               /\ db'.edges[i].to_account_id = AccountIdOf(db', r.to)
        /\ \A r \in NewOperations : r.type = "create_account" =>
             /\ AccountIdOf(db', r.from) # NULL /\ AccountIdOf(db', r.to) # NULL
             /\ RowOf(db', r).from_account_id = AccountIdOf(db', r.from)
             /\ RowOf(db', r).to_account_id = AccountIdOf(db', r.to)
             /\ RowOf(db', r).asset_id = NULL ]_vars

\* a committed cycle stored the funding of GC by GB: both accounts are
\* stored and there is no edge
C32_Witness ==
  /\ ret.op = "operations_global" /\ ret.status = "ok" /\ ret.operations_created = 1
  /\ \E o \in Rows(db.ops) :
       /\ o.type = "create_account"
       /\ o.from_account_id = AccountIdOf(db, "GB")
       /\ o.to_account_id = AccountIdOf(db, "GC")
       /\ o.from_account_id # NULL /\ o.to_account_id # NULL
       /\ o.amount = 20
  /\ db.edges = << >>

\* the stored payment-class operations of an edge key
PaymentsOfKey(s, f, t, a) ==
  { i \in DOMAIN s.ops :
      /\ s.ops[i].type \in PaymentTypes
      /\ s.ops[i].from_account_id = f /\ s.ops[i].to_account_id = t
      /\ s.ops[i].asset_id = a }

RECURSIVE SumAmounts(_, _)
SumAmounts(s, ids) ==
  IF ids = {} THEN 0
  ELSE LET i == CHOOSE x \in ids : TRUE
       IN  s.ops[i].amount + SumAmounts(s, ids \ {i})

\* C33: in every committed state, for every edge whose key names a stored
\* asset, tx_count is the number of stored payment-class operations with
\* that sender, receiver and asset and total_amount is the sum of their
\* amounts; a record that is ingested again, being stored already, changes
\* neither.
C33_EdgeCountersMatchOperations ==
  \A e \in Rows(db.edges) : e.asset_id # NULL =>
    LET ids == PaymentsOfKey(db, e.from_account_id, e.to_account_id, e.asset_id)
    IN  /\ e.tx_count = Cardinality(ids)
        /\ e.total_amount = SumAmounts(db, ids)

\* every record at or before the stored cursor is stored: no cycle skipped
\* a record
CursorCovered(s) ==
  \A r \in Rows(OpLedger) :
    r.paging_token <= s.ckpt["operations_global"].last_paging_token =>
      \E o \in Rows(s.ops) : o.op_id = r.id

\* C34: when cycles of the operations stream overlap, the stored
\* last_paging_token never moves backward: no commit replaces a cursor,
\* whose records are all stored, by an earlier one.
C34_OverlapCursorNeverBackward ==
  [][ CursorCovered(db) =>
        db'.ckpt["operations_global"].last_paging_token
          >= db.ckpt["operations_global"].last_paging_token ]_vars

\* the rapid_outflow alerts stored for an account
OutflowAlerts(s, account_id) ==
  { i \in DOMAIN s.alerts :
      s.alerts[i].alert_type = "rapid_outflow" /\ s.alerts[i].account_id = account_id }

\* C35: when an engine run finds a watched account over the threshold and a
\* rapid_outflow alert for that account is stored from an earlier run inside
\* the deduplication window, the run is suppressed as a duplicate for that
\* account: it adds no alert, so exactly one rapid_outflow alert exists.
C35_SecondOutflowRunSuppressed ==
  [][ ret'.op = "rule_engine" =>
        \A r \in Rows(ret'.results) :
          OutflowAlerts(db, r.account_id) # {} =>
            /\ OutflowAlerts(db', r.account_id) = OutflowAlerts(db, r.account_id)
            /\ Cardinality(OutflowAlerts(db', r.account_id)) = 1 ]_vars

\* C36: every committed flag creation raises the account's risk_score from
\* the committed score s to min(100, s + d), d being the increment of the
\* flag's severity, so that two overlapping creations with increments d1
\* and d2 end at min(100, s + d1 + d2); the score never decreases.
C36_ConcurrentFlagsAddUp ==
  [][ Len(db'.flags) = Len(db.flags) + 1 =>
        LET f == db'.flags[Len(db'.flags)]
        IN  /\ db'.accounts[f.account_id].risk_score =
                 Min(100, db.accounts[f.account_id].risk_score + SeverityScore(f.severity))
            /\ db'.accounts[f.account_id].risk_score
                 >= db.accounts[f.account_id].risk_score ]_vars

\* C37: when engine runs overlap and fire the same finding, at most one
\* alert and at most one flag with that rule, account and dedup key is
\* stored.
C37_OneRecordPerDedupKey ==
  /\ \A i, j \in DOMAIN db.alerts :
       ( /\ db.alerts[i].alert_type = db.alerts[j].alert_type
         /\ db.alerts[i].account_id = db.alerts[j].account_id
         /\ db.alerts[i].dedup_key = db.alerts[j].dedup_key ) => i = j
  /\ \A i, j \in DOMAIN db.flags :
       ( /\ db.flags[i].flag_type = db.flags[j].flag_type
         /\ db.flags[i].account_id = db.flags[j].account_id
         /\ db.flags[i].dedup_key = db.flags[j].dedup_key ) => i = j

\* a step of ingest_watchlist_accounts that returned its summary
WatchlistRefreshed == ret'.op = "ingest_watchlist_accounts" /\ now' = now

\* the positions of the refreshed accounts whose refresh went through
RefreshedOk == { k \in DOMAIN ret'.outcomes : ret'.outcomes[k] = "ok" }

\* C38: after ingest_watchlist_accounts returns its summary, total_accounts
\* = successful + failed, every account whose refresh went through is
\* counted as successful whatever happened to the others, every transaction
\* counted in transactions_ingested is stored, and every account counted as
\* successful has its transactions stored and its last_seen set by the
\* refresh.
C38_WatchlistSummaryDurable ==
  [][ WatchlistRefreshed =>
        /\ ret'.total_accounts = ret'.successful + ret'.failed
        /\ ret'.successful = Cardinality(RefreshedOk)
        /\ ret'.transactions_ingested = Len(db'.txs) - Len(db.txs)
        /\ \A k \in RefreshedOk :
             /\ db'.accounts[ret'.ids[k]].last_seen = now
             /\ \A tx \in Rows(AccountTxs(db.accounts[ret'.ids[k]].address)) :
                  TxIdOf(db', tx.hash) # NULL ]_vars

----------------------------------------------------------------------------
(* Properties of the Large Transfer rule                                   *)

\* the rule returned a finding for the operation row o
Fired(results, o) ==
  \E i \in DOMAIN results :
    /\ results[i].rule_name = "large_transfer"
    /\ results[i].evidence.operation_id = o.op_id

Watched(s, account_id) == \E m \in Rows(s.members) : m.account_id = account_id

\* C20: the Large Transfer rule returns a finding for an operation (of a
\* successful transaction) exactly when the operation is payment-class, its
\* sender is watched, its amount is at least the threshold and it was
\* created within the last hour.
C20_LargeTransferFires ==
  ret.op = "large_transfer" =>
    \A o \in { r \in Rows(db.ops) : db.txs[r.tx_id].successful } :
      Fired(ret.results, o) <=>
        /\ o.type \in PaymentTypes
        /\ Watched(db, o.from_account_id)
        /\ o.amount # NoAmount /\ Geq(o.amount, Threshold)
        /\ o.created_at >= now - 1

\* the same over all operations, with the operations that carry a sender
\* and an amount in place of the payment-class ones: nothing fires for an
\* operation of a failed transaction
LargeTransferFiresAsCoded ==
  ret.op = "large_transfer" =>
    \A o \in Rows(db.ops) :
      Fired(ret.results, o) <=>
        /\ db.txs[o.tx_id].successful
        /\ o.type \in PaymentTypes \cup {"create_account"}
        /\ Watched(db, o.from_account_id)
        /\ o.amount # NoAmount /\ Geq(o.amount, Threshold)
        /\ o.created_at >= now - 1

\* with threshold 10000 a payment of 15000 sent by a watched account in the
\* last hour fires and one of 9999.9999999 does not
LargeTransferScenario ==
  ret.op = "large_transfer" =>
    \A o \in Rows(db.ops) :
      (/\ o.type = "payment" /\ Watched(db, o.from_account_id)
       /\ o.created_at >= now - 1 /\ db.txs[o.tx_id].successful) =>
        /\ o.amount = Dec(15000, 0) => Fired(ret.results, o)
        /\ o.amount = Dec(9999, 9999999) => ~Fired(ret.results, o)

\* the rule fired for a create_account operation of a watched funder
CreateAccountFiredSeen ==
  /\ ret.op = "large_transfer"
  /\ \E o \in Rows(db.ops) : o.type = "create_account" /\ Fired(ret.results, o)

----------------------------------------------------------------------------
(* Properties of the Dormant Reactivation rule                             *)

\* the rule returned a finding for account a
FiredFor(r, a) ==
  /\ r.status = "ok"
  /\ \E i \in DOMAIN r.results : r.results[i].account_id = a

\* account a has an outgoing operation of a successful transaction with
\* amount >= the amount threshold created within the last hour
Reactivated(s, a, t) ==
  \E o \in Rows(s.ops) :
    /\ o.from_account_id = a
    /\ o.amount # NoAmount /\ Geq(o.amount, DormantAmountThreshold)
    /\ o.created_at >= t - 1
    /\ s.txs[o.tx_id].successful

\* C21: the Dormant Reactivation rule returns a finding for an account
\* exactly when the account is watched, its last_seen is older than now
\* minus the dormancy threshold and it has an outgoing operation with
\* amount >= the amount threshold created within the last hour.
C21_DormantFires ==
  ret.op = "dormant_reactivation" =>
    \A a \in DOMAIN db.accounts :
      FiredFor(ret, a) <=>
        /\ Watched(db, a)
        /\ db.accounts[a].last_seen # NULL
        /\ db.accounts[a].last_seen < now - RULE_DORMANT_DAYS_THRESHOLD * HoursPerDay
        /\ Reactivated(db, a, now)

\* when the stored times come back naive the rule fires as claimed, with a
\* last_seen exactly at the cutoff counted as dormant
DormantFiresNaive ==
  (ret.op = "dormant_reactivation" /\ ~ret.aware) =>
    /\ ret.status = "ok"
    /\ \A a \in DOMAIN db.accounts :
         FiredFor(ret, a) <=>
           /\ Watched(db, a)
           /\ db.accounts[a].last_seen # NULL
           /\ db.accounts[a].last_seen <= now - RULE_DORMANT_DAYS_THRESHOLD * HoursPerDay
           /\ Reactivated(db, a, now)

\* when they come back offset-aware the rule returns nothing for a store
\* with a watched account that has a last_seen
DormantRaisesAware ==
  (ret.op = "dormant_reactivation" /\ ret.aware) =>
    /\ ret.results = << >>
    /\ ret.status = "TypeError" <=>
         \E a \in DOMAIN db.accounts : Watched(db, a) /\ db.accounts[a].last_seen # NULL

\* a watched account dormant for more than the threshold, reactivated by a
\* payment in the last hour, and an evaluation that raised
DormantMissedSeen ==
  /\ ret.op = "dormant_reactivation" /\ ret.status = "TypeError"
  /\ \E a \in DOMAIN db.accounts :
       /\ Watched(db, a)
       /\ db.accounts[a].last_seen # NULL
       /\ db.accounts[a].last_seen < now - RULE_DORMANT_DAYS_THRESHOLD * HoursPerDay
       /\ Reactivated(db, a, now)

----------------------------------------------------------------------------
(* Properties of the New Counterparty rule                                 *)

\* the stored payments of the relation a finding is about
PaymentsOf(s, r) ==
  LET c == AccountIdOf(s, r.evidence.counterparty_account)
  IN  IF r.evidence.direction = "outgoing"
        THEN PaymentsOn(s.ops, r.account_id, c, r.asset_id)
        ELSE PaymentsOn(s.ops, c, r.account_id, r.asset_id)

\* C22: the New Counterparty rule fires for a (watched account,
\* counterparty, asset) relation only on its first-ever interaction: no
\* evaluation fires for a relation, the native asset included, of which a
\* second payment has been ingested.
C22_FirstInteractionOnly ==
  ret.op = "new_counterparty" =>
    \A i \in DOMAIN ret.results :
      /\ Watched(db, ret.results[i].account_id)
      /\ Len(PaymentsOf(db, ret.results[i])) = 1

\* the same for the relations in an issued asset
FirstInteractionOnlyIssued ==
  ret.op = "new_counterparty" =>
    \A i \in DOMAIN ret.results :
      /\ Watched(db, ret.results[i].account_id)
      /\ ret.results[i].asset_id # NULL => Len(PaymentsOf(db, ret.results[i])) = 1

\* an evaluation that fired for the first payment of a relation in an
\* issued asset
IssuedFirstSeen ==
  /\ ret.op = "new_counterparty"
  /\ \E i \in DOMAIN ret.results : ret.results[i].asset_id # NULL

\* an evaluation right after the second payment of a relation in an issued
\* asset that did not fire for it
IssuedSecondSeen ==
  /\ ret.op = "new_counterparty"
  /\ \E e \in Rows(db.edges) :
       /\ e.asset_id # NULL /\ e.tx_count = 2 /\ e.last_seen = now
       /\ Watched(db, e.from_account_id)
       /\ \A i \in DOMAIN ret.results : ret.results[i].asset_id = NULL

----------------------------------------------------------------------------
(* Properties of the Rapid Outflow rule                                    *)

\* the outgoing payment-class operations of account a, in successful
\* transactions, created within the trailing window that ends at t
PaymentsInWindow(s, a, t) ==
  { k \in DOMAIN s.ops :
      /\ s.ops[k].from_account_id = a
      /\ s.ops[k].type \in PaymentTypes
      /\ s.ops[k].created_at >= t - RULE_RAPID_OUTFLOW_MINUTES
      /\ s.txs[s.ops[k].tx_id].successful }

FindingsFor(results, a) == { i \in DOMAIN results : results[i].account_id = a }

----------------------------------------------------------------------------
(* Properties of the Asset Concentration rule                              *)

\* the accounts with a snapshot of the asset
Holders(s, asset_id) ==
  { r.account_id : r \in { b \in Rows(s.balances) : b.asset_id = asset_id } }

\* the current balance of an account in an asset: that of its snapshot with
\* the greatest snapshot time, the greatest id among those of that time
CurrentBalance(s, asset_id, account_id) ==
  LET ids == { i \in DOMAIN s.balances :
                 s.balances[i].asset_id = asset_id /\ s.balances[i].account_id = account_id }
      i   == CHOOSE i \in ids : \A j \in ids :
               \/ s.balances[j].snapshot_at < s.balances[i].snapshot_at
               \/ s.balances[j].snapshot_at = s.balances[i].snapshot_at /\ j <= i
  IN  s.balances[i].balance

\* the sum of the k largest current balances among the accounts of S
RECURSIVE LargestSum(_, _, _, _)
LargestSum(s, asset_id, S, k) ==
  IF S = {} \/ k = 0 THEN 0
  ELSE LET a == CHOOSE a \in S : \A b \in S :
                  CurrentBalance(s, asset_id, b) <= CurrentBalance(s, asset_id, a)
       IN  CurrentBalance(s, asset_id, a) + LargestSum(s, asset_id, S \ {a}, k - 1)

Concentrated(s, asset_id) ==
  LET total == LargestSum(s, asset_id, Holders(s, asset_id),
                          Cardinality(Holders(s, asset_id)))
      top   == LargestSum(s, asset_id, Holders(s, asset_id), TopHolderLimit)
  IN  total > 0 /\ 100 * top >= RULE_ASSET_CONCENTRATION_PERCENT * total

FindingsOfAsset(results, asset_id) ==
  { i \in DOMAIN results : results[i].asset_id = asset_id }

\* no account has two snapshots of one asset taken at the same time
NoSimultaneousSnapshots(s) ==
  \A i, j \in DOMAIN s.balances :
    ( /\ s.balances[i].account_id = s.balances[j].account_id
      /\ s.balances[i].asset_id = s.balances[j].asset_id
      /\ s.balances[i].snapshot_at = s.balances[j].snapshot_at ) => i = j

\* C24: for each stored asset the Asset Concentration rule counts one
\* current balance per holding account, that of the snapshot with the
\* greatest snapshot time, and returns exactly one finding for the asset
\* when the 10 largest current balances sum to at least X% of the sum of
\* all current balances, and none otherwise, including when the total
\* current supply is 0.
C24_AssetConcentration ==
  ret.op = "asset_concentration" =>
    \A a \in DOMAIN db.assets :
      Cardinality(FindingsOfAsset(ret.results, a)) =
        IF Concentrated(db, a) THEN 1 ELSE 0

\* the same over the stores with no simultaneous snapshots
ConcentrationUntied ==
  (ret.op = "asset_concentration" /\ NoSimultaneousSnapshots(db)) =>
    \A a \in DOMAIN db.assets :
      Cardinality(FindingsOfAsset(ret.results, a)) =
        IF Concentrated(db, a) THEN 1 ELSE 0

\* an evaluation over a store with no simultaneous snapshots where asset 1
\* has more than 10 holders and did not fire, and asset 2 fired
UntiedBelowSeen ==
  /\ ret.op = "asset_concentration"
  /\ NoSimultaneousSnapshots(db)
  /\ Cardinality(Holders(db, 1)) > TopHolderLimit
  /\ FindingsOfAsset(ret.results, 1) = {}
  /\ FindingsOfAsset(ret.results, 2) # {}
  /\ \E b \in Rows(db.balances) : b.snapshot_at < ConcentrationNow /\ b.account_id = 1

----------------------------------------------------------------------------
(* Properties of the rate limiter                                          *)

\* the calls of log started in the window that ends with call k
InWindow(log, k) ==
  { j \in DOMAIN log : log[k].at - Window < log[j].at /\ log[j].at <= log[k].at }

\* C18: whatever kinds of fetches one process issues, at most 5 network
\* calls start within any window of one second.
C18_RateCeiling ==
  \A k \in DOMAIN limiter.calls :
    Cardinality(InWindow(limiter.calls, k)) <= MAX_REQUESTS_PER_SECOND

\* the ceiling holds among the calls of the fetches that go through
\* _throttle, and such a fetch never fails in _throttle
RateCeilingThrottled ==
  LET log == SelectSeq(limiter.calls, LAMBDA c : c.throttled)
  IN  /\ \A k \in DOMAIN log :
           Cardinality(InWindow(log, k)) <= MAX_REQUESTS_PER_SECOND
      /\ limiter.threads[1].status # "error"

\* six throttled fetches, the sixth of them held back by a sleep until the
\* first is older than the window
ThrottledWaitSeen ==
  /\ Len(limiter.dq) = 6
  /\ limiter.dq[5] < limiter.dq[1] + Window
  /\ limiter.dq[6] = limiter.dq[1] + Window + Margin
  /\ limiter.calls # << >>
  /\ limiter.calls[Len(limiter.calls)] = [at |-> limiter.dq[6], throttled |-> TRUE]
  /\ limiter.threads[1].status = "ok"

\* C19: with threads of one process inside _throttle at the same time, at
\* most 5 requests are admitted per window of one second and no thread
\* fails on the shared queue.
C19_ThreadsRateCeiling ==
  /\ \A k \in DOMAIN limiter.calls :
       Cardinality(InWindow(limiter.calls, k)) <= MAX_REQUESTS_PER_SECOND
  /\ \A i \in ThreadIds : limiter.threads[i].status # "error"

\* six requests admitted within one window, each by a fetch that went
\* through _throttle, and no thread failed
ThreadsOverCeilingSeen ==
  /\ \E k \in DOMAIN limiter.calls :
       Cardinality(InWindow(limiter.calls, k)) > MAX_REQUESTS_PER_SECOND
  /\ \A k \in DOMAIN limiter.calls : limiter.calls[k].throttled
  /\ \A i \in ThreadIds : limiter.threads[i].status = "ok"

----------------------------------------------------------------------------
(* Properties of the Horizon connector                                     *)

\* the number of transient outcomes the script starts with
RECURSIVE LeadingTransient(_)
LeadingTransient(script) ==
  IF script = <<>> \/ Head(script) \notin Transient THEN 0
  ELSE 1 + LeadingTransient(Tail(script))

\* C9: a fetch whose underlying call fails with a transient error is
\* attempted again, up to 3 underlying calls: with k transient failures
\* before the first other outcome it makes min(3, k + 1) calls, it returns
\* the result when two failures are followed by a success, and it escalates
\* an error when all 3 calls fail.
C9_TransientRetried ==
  (client.result \notin {"none", "pending"} /\ client.script[1] \in Transient) =>
    LET k == LeadingTransient(client.script)
    IN  /\ client.attempts <= 3
        /\ client.attempts = Min(3, k + 1)
        /\ (k = 2 /\ client.script[3] = "ok") => client.result = "ok"
        /\ k >= 3 => client.result # "ok"

\* C10: a fetch whose underlying call fails with NotFoundError or
\* BadRequestError makes exactly one underlying call and hands an error to
\* the caller; fetch_account hands AccountNotFoundError for not-found and
\* HorizonClientError for bad-request.
C10_NonTransientOnce ==
  (client.result \notin {"none", "pending"} /\ client.script[1] \in NonTransient) =>
    /\ client.attempts = 1
    /\ client.result # "ok"
    /\ client.fn = "fetch_account" =>
         client.result = IF client.script[1] = "NotFoundError"
                           THEN "AccountNotFoundError" ELSE "HorizonClientError"

\* fetch_account answered not-found by the source
C10_Witness ==
  /\ client.fn = "fetch_account"
  /\ client.script[1] = "NotFoundError"
  /\ client.attempts = 1
  /\ client.result = "AccountNotFoundError"

====
